---- MODULE Spec2Model ----
(***************************************************************************)
(* The Pithon evaluator (src/src/pithon/evaluator/evaluator.py): a         *)
(* recursive tree-walking interpreter over chained environment frames.     *)
(*                                                                         *)
(* Python objects that are shared by reference (EnvFrame, VObject,         *)
(* VClassDef) live in a store and are named by their index; a value is a   *)
(* record with a "tag" (its Python class).  An evaluation yields an        *)
(* outcome: a value or a raised Python exception, and the store after it.  *)
(***************************************************************************)
EXTENDS Integers, Sequences, FiniteSets, TLC

\* ------------------------------------------------------------------ bounds
\* Numbers are fixed-point: the integer n stands for the Python number n/Scale.
Scale == 2
\* Longest collection literal of the generated programs.
MaxLen == 3
\* Most fixed parameters (after self) and most call arguments.
MaxArgs == 2
\* Evaluation budget: evaluate_stmt entries of one run.
MaxSteps == 200

\* --------------------------------------------------------- syntax (AST)
PiNumber(v) == [type |-> "PiNumber", value |-> v]
PiBool(v) == [type |-> "PiBool", value |-> v]
PiNone == [type |-> "PiNone"]
\* A string is the sequence of its characters.
PiString(v) == [type |-> "PiString", value |-> v]
PiList(es) == [type |-> "PiList", elements |-> es]
PiTuple(es) == [type |-> "PiTuple", elements |-> es]
PiVariable(n) == [type |-> "PiVariable", name |-> n]
PiBinaryOperation(op, l, r) ==
    [type |-> "PiBinaryOperation", operator |-> op, left |-> l, right |-> r]
PiAssignment(n, v) == [type |-> "PiAssignment", name |-> n, value |-> v]
PiIfThenElse(c, t, e) ==
    [type |-> "PiIfThenElse", condition |-> c, then_branch |-> t, else_branch |-> e]
PiNot(o) == [type |-> "PiNot", operand |-> o]
PiAnd(l, r) == [type |-> "PiAnd", left |-> l, right |-> r]
PiOr(l, r) == [type |-> "PiOr", left |-> l, right |-> r]
PiWhile(c, b) == [type |-> "PiWhile", condition |-> c, body |-> b]
\* vararg is the variadic parameter's name, NoVararg (Python None) without one.
NoVararg == ""
PiFunctionDef(n, as, va, b) ==
    [type |-> "PiFunctionDef", name |-> n, arg_names |-> as, vararg |-> va, body |-> b]
PiFunctionCall(f, as) == [type |-> "PiFunctionCall", function |-> f, args |-> as]
PiFor(v, it, b) == [type |-> "PiFor", var |-> v, iterable |-> it, body |-> b]
PiBreak == [type |-> "PiBreak"]
PiContinue == [type |-> "PiContinue"]
PiIn(e, c) == [type |-> "PiIn", element |-> e, container |-> c]
PiReturn(v) == [type |-> "PiReturn", value |-> v]
PiSubscript(c, i) == [type |-> "PiSubscript", collection |-> c, index |-> i]
PiClassDef(n, ms) == [type |-> "PiClassDef", name |-> n, methods |-> ms]
PiAttribute(o, a) == [type |-> "PiAttribute", object |-> o, attr |-> a]
PiAttributeAssignment(o, a, v) ==
    [type |-> "PiAttributeAssignment", object |-> o, attr |-> a, value |-> v]

\* ---------------------------------------------------------------- values
VNumber(v) == [tag |-> "VNumber", value |-> v]
VBool(v) == [tag |-> "VBool", value |-> v]
VNone == [tag |-> "VNone"]
VString(v) == [tag |-> "VString", value |-> v]
VList(v) == [tag |-> "VList", value |-> v]
VTuple(v) == [tag |-> "VTuple", value |-> v]
\* closure_env is the index of the captured frame: a reference, not a copy.
VFunctionClosure(fd, e) == [tag |-> "VFunctionClosure", funcdef |-> fd, closure_env |-> e]
VMethodClosure(f, inst) == [tag |-> "VMethodClosure", function |-> f, instance |-> inst]
\* A class and an object are references into the store.
VClassDef(ref) == [tag |-> "VClassDef", ref |-> ref]
VObject(ref) == [tag |-> "VObject", ref |-> ref]
\* A host callable of the primitive table.
VPrimitive(n) == [tag |-> "VPrimitive", name |-> n]

\* -------------------------------------------------------------- outcomes
\* out = "ok": val is the value.  out = "exc": exc is the Python exception
\* class raised, kind the fault it was raised for (its message), and val the
\* payload of a ReturnException.
Ok(v, s) == [out |-> "ok", val |-> v, exc |-> "", kind |-> "", st |-> s]
Raise(e, k, s) == [out |-> "exc", val |-> VNone, exc |-> e, kind |-> k, st |-> s]
RaiseReturn(v, s) == [out |-> "exc", val |-> v, exc |-> "ReturnException", kind |-> "", st |-> s]

\* ------------------------------------------------------------ environment
EmptyMap == [n \in {} |-> VNone]
MapPut(m, k, v) == [n \in (DOMAIN m) \cup {k} |-> IF n = k THEN v ELSE m[n]]

NoParent == 0
Root == 1

\* EnvFrame(parent=p): a new empty frame, the next index of the store.
NewFrame(p, s) == [s EXCEPT !.frames = Append(@, [vars |-> EmptyMap, parent |-> p])]
\* Mutant of LastFrame: one activation record, that of the first call, serves
\* every call.
LastFrame_static(s) == IF Len(s.frames) > Root THEN Root + 1 ELSE Len(s.frames)

LastFrame(s) == Len(s.frames)

\* EnvFrame.insert: always writes the frame itself.
insert(env, name, value, s) ==
    [s EXCEPT !.frames[env].vars = MapPut(@, name, value)]

\* The frame of the chain from env that binds name, NoParent when none does.
RECURSIVE FrameOf(_, _, _)
FrameOf(env, name, s) ==
    IF env = NoParent THEN NoParent
    ELSE IF name \in DOMAIN s.frames[env].vars THEN env
    ELSE FrameOf(s.frames[env].parent, name, s)

\* EnvFrame.lookup: the first binding from env up to the root.
lookup(env, name, s) ==
    LET f == FrameOf(env, name, s) IN
    IF f = NoParent THEN Raise("NameError", "UnboundName", s)
    ELSE Ok(s.frames[f].vars[name], s)

\* The primitive table merged into the root frame by initial_env.
PrimitiveNames == {"+", "-", "==", "<"}
get_primitive_dict == [n \in PrimitiveNames |-> VPrimitive(n)]

initial_env ==
    [frames |-> <<[vars |-> get_primitive_dict, parent |-> NoParent]>>,
     objects |-> <<>>,
     classes |-> <<>>,
     trace |-> <<>>]

\* A host primitive applied to the evaluated arguments.
ApplyPrimitive(name, args, s) ==
    IF Len(args) # 2 \/ args[1].tag # "VNumber" \/ args[2].tag # "VNumber"
    THEN Raise("TypeError", "TypeMismatch", s)
    ELSE CASE name = "+" -> Ok(VNumber(args[1].value + args[2].value), s)
           [] name = "-" -> Ok(VNumber(args[1].value - args[2].value), s)
           [] name = "==" -> Ok(VBool(args[1].value = args[2].value), s)
           [] name = "<" -> Ok(VBool(args[1].value < args[2].value), s)

\* primitive.check_type(value, cls): the value, or TypeError.
check_type(v, cls, s) ==
    IF v.tag = cls THEN Ok(v, s) ELSE Raise("TypeError", "TypeMismatch", s)

\* Python truth value of the .value field of a Bool/Number/String/None/List/Tuple.
Truthy(v) ==
    CASE v.tag = "VBool" -> v.value
      [] v.tag = "VNumber" -> v.value # 0
      [] v.tag = "VNone" -> FALSE
      [] OTHER -> Len(v.value) > 0

\* Python int(x) on a number: truncation toward zero.
PyInt(x) == IF x >= 0 THEN x \div Scale ELSE -((-x) \div Scale)

\* Python seq[i]: a negative i counts from the end; outside -n..n-1 IndexError.
PyInRange(seq, i) == -Len(seq) <= i /\ i < Len(seq)
PyItem(seq, i) == IF i < 0 THEN seq[Len(seq) + i + 1] ELSE seq[i + 1]

\* -------------------------------------------------------------- evaluator
RECURSIVE evaluate_stmt(_, _, _)
RECURSIVE evaluate_loop(_, _, _, _, _)
RECURSIVE eval_elements(_, _, _, _, _)
RECURSIVE while_iter(_, _, _, _)
RECURSIVE for_iter(_, _, _, _, _, _)
RECURSIVE bind_args(_, _, _, _, _, _)

\* The evaluation trace: every evaluate_stmt entry, and every raise of a
\* ReturnException (RaiseMark), with the frame it happens in.
RaiseMark == [type |-> "raise ReturnException"]
Log(node, env, s) == [s EXCEPT !.trace = Append(@, [node |-> node, env |-> env])]

\* except (TypeError, ZeroDivisionError, ValueError) as e: raise RuntimeError(str(e))
except_clause(r) ==
    IF r.out = "exc" /\ r.exc \in {"TypeError", "ZeroDivisionError", "ValueError"}
    THEN [r EXCEPT !.exc = "RuntimeError"]
    ELSE r

\* for stmt in node: last_value = evaluate_stmt(stmt, env), from statement i on.
\* Mutant of evaluate_loop: a failed statement is skipped and the loop goes on.
RECURSIVE evaluate_loop_resume(_, _, _, _, _)
evaluate_loop_resume(node, i, last, env, s) ==
    IF i > Len(node) THEN Ok(last, s)
    ELSE LET r == evaluate_stmt(node[i], env, s) IN
         IF r.out = "ok" THEN evaluate_loop_resume(node, i + 1, r.val, env, r.st)
         ELSE IF r.exc \in {"ReturnException", "BreakException", "ContinueException"} THEN r
         ELSE evaluate_loop_resume(node, i + 1, last, env, r.st)

evaluate_loop(node, i, last, env, s) ==
    IF i > Len(node) THEN Ok(last, s)
    ELSE LET r == evaluate_stmt(node[i], env, s) IN
         IF r.out = "ok" THEN evaluate_loop(node, i + 1, r.val, env, r.st) ELSE r

\* The class of a host value, read off the first character of its printed form:
\* "<" a list, "[" an object with fields, anything else a number, string or
\* boolean.
PyKind(x) == SubSeq(ToString(x), 1, 1)

\* isinstance(node, list)
IsList(node) == PyKind(node) = "<"

\* The node classes that make up PiStatement.
PiStatementTypes ==
    {"PiNumber", "PiBool", "PiNone", "PiString", "PiList", "PiTuple", "PiVariable",
     "PiBinaryOperation", "PiAssignment", "PiIfThenElse", "PiNot", "PiAnd", "PiOr",
     "PiWhile", "PiFunctionDef", "PiReturn", "PiFunctionCall", "PiFor", "PiBreak",
     "PiContinue", "PiIn", "PiSubscript", "PiClassDef", "PiAttribute",
     "PiAttributeAssignment"}

\* isinstance(node, PiStatement)
IsPiStatement(node) ==
    PyKind(node) = "[" /\ "type" \in DOMAIN node /\ node.type \in PiStatementTypes

\* The try block of evaluate: a list is evaluated statement by statement, a
\* single statement by evaluate_stmt, anything else is a TypeError.
evaluate_try(node, env, s) ==
    CASE IsList(node) -> evaluate_loop(node, 1, VNone, env, s)
      [] IsPiStatement(node) -> evaluate_stmt(node, env, s)
      [] OTHER -> Raise("TypeError", "UnsupportedNode", s)

\* Mutant of evaluate: a sequence is a transaction, a failure of one of its
\* statements restores the frames and objects the sequence started with.
evaluate_rollback(node, env, s) ==
    LET r == except_clause(evaluate_try(node, env, s)) IN
    IF r.out = "exc" /\ r.exc \notin {"ReturnException", "BreakException", "ContinueException"}
    THEN [r EXCEPT !.st = [s EXCEPT !.trace = r.st.trace]]
    ELSE r

\* evaluate on a program, a branch, a loop body or a single statement: the try
\* block inside evaluate's own except clause.
evaluate(node, env, s) == except_clause(evaluate_try(node, env, s))

\* [evaluate_stmt(e, env) for e in nodes], left to right, from element i on.
eval_elements(nodes, i, acc, env, s) ==
    IF i > Len(nodes) THEN Ok(acc, s)
    ELSE LET r == evaluate_stmt(nodes[i], env, s) IN
         IF r.out = "ok" THEN eval_elements(nodes, i + 1, Append(acc, r.val), env, r.st)
         ELSE r

eval_List(node, env, s) ==
    LET r == eval_elements(node.elements, 1, <<>>, env, s) IN
    IF r.out = "ok" THEN Ok(VList(r.val), r.st) ELSE r

eval_Tuple(node, env, s) ==
    LET r == eval_elements(node.elements, 1, <<>>, env, s) IN
    IF r.out = "ok" THEN Ok(VTuple(r.val), r.st) ELSE r

\* Mutant of eval_BinaryOperation: the operator is applied as the primitive of
\* that name, whatever the name is bound to.
eval_BinaryOperation_builtin(node, env, s) ==
    IF node.operator \notin PrimitiveNames THEN Raise("NameError", "UnboundName", s)
    ELSE LET a == eval_elements(<<node.left, node.right>>, 1, <<>>, env, s) IN
         IF a.out # "ok" THEN a ELSE ApplyPrimitive(node.operator, a.val, a.st)

eval_BinaryOperation(node, env, s) ==
    evaluate_stmt(PiFunctionCall(PiVariable(node.operator), <<node.left, node.right>>), env, s)

\* Mutant of eval_Assignment: rebinds the name in the nearest frame that binds it.
eval_Assignment_rebind(node, env, s) ==
    LET r == evaluate_stmt(node.value, env, s)
        f == FrameOf(env, node.name, r.st)
    IN  IF r.out = "ok"
        THEN Ok(r.val, insert(IF f = NoParent THEN env ELSE f, node.name, r.val, r.st))
        ELSE r

eval_Assignment(node, env, s) ==
    LET r == evaluate_stmt(node.value, env, s) IN
    IF r.out = "ok" THEN Ok(r.val, insert(env, node.name, r.val, r.st)) ELSE r

eval_IfThenElse(node, env, s) ==
    LET c == evaluate_stmt(node.condition, env, s) IN
    IF c.out # "ok" THEN c
    ELSE LET b == check_type(c.val, "VBool", c.st) IN
         IF b.out # "ok" THEN b
         ELSE evaluate(IF b.val.value THEN node.then_branch ELSE node.else_branch, env, b.st)

\* isinstance(obj, VBool | VNumber | VString | VNone | VList | VTuple)
_check_valid_piandor_type(obj) ==
    obj.tag \in {"VBool", "VNumber", "VString", "VNone", "VList", "VTuple"}

eval_Not(node, env, s) ==
    LET r == evaluate_stmt(node.operand, env, s) IN
    IF r.out # "ok" THEN r
    ELSE IF ~_check_valid_piandor_type(r.val) THEN Raise("TypeError", "TypeMismatch", r.st)
    ELSE Ok(VBool(~Truthy(r.val)), r.st)

\* Mutant of eval_And: both operands are evaluated before the left one decides.
eval_And_eager(node, env, s) ==
    LET l == evaluate_stmt(node.left, env, s) IN
    IF l.out # "ok" THEN l
    ELSE IF ~_check_valid_piandor_type(l.val) THEN Raise("TypeError", "TypeMismatch", l.st)
    ELSE LET r == evaluate_stmt(node.right, env, l.st) IN
         IF r.out # "ok" THEN r
         ELSE IF ~_check_valid_piandor_type(r.val) THEN Raise("TypeError", "TypeMismatch", r.st)
         ELSE IF ~Truthy(l.val) THEN Ok(l.val, r.st) ELSE r

eval_And(node, env, s) ==
    LET l == evaluate_stmt(node.left, env, s) IN
    IF l.out # "ok" THEN l
    ELSE IF ~_check_valid_piandor_type(l.val) THEN Raise("TypeError", "TypeMismatch", l.st)
    ELSE IF ~Truthy(l.val) THEN l
    ELSE LET r == evaluate_stmt(node.right, env, l.st) IN
         IF r.out # "ok" THEN r
         ELSE IF ~_check_valid_piandor_type(r.val) THEN Raise("TypeError", "TypeMismatch", r.st)
         ELSE r

eval_Or(node, env, s) ==
    LET l == evaluate_stmt(node.left, env, s) IN
    IF l.out # "ok" THEN l
    ELSE IF ~_check_valid_piandor_type(l.val) THEN Raise("TypeError", "TypeMismatch", l.st)
    ELSE IF Truthy(l.val) THEN l
    ELSE LET r == evaluate_stmt(node.right, env, l.st) IN
         IF r.out # "ok" THEN r
         ELSE IF ~_check_valid_piandor_type(r.val) THEN Raise("TypeError", "TypeMismatch", r.st)
         ELSE r

\* Mutant of loop_except: a loop that also swallows ReturnException, as a break.
loop_except_return(exc) ==
    CASE exc \in {"BreakException", "ReturnException"} -> "break"
      [] exc = "ContinueException" -> "continue"
      [] OTHER -> "propagate"

\* Mutant of loop_except: continue ends the loop as break does.
loop_except_continue_ends(exc) ==
    CASE exc \in {"BreakException", "ContinueException"} -> "break"
      [] OTHER -> "propagate"

\* What a loop does with an exception of its body: except BreakException: break,
\* except ContinueException: continue, anything else propagates.
loop_except(exc) ==
    CASE exc = "BreakException" -> "break"
      [] exc = "ContinueException" -> "continue"
      [] OTHER -> "propagate"

\* One pass of `while True:` of _evaluate_while, last being last_value.
while_iter(node, env, last, s) ==
    LET c == evaluate_stmt(node.condition, env, s) IN
    IF c.out # "ok" THEN c
    ELSE LET t == check_type(c.val, "VBool", c.st) IN
         IF t.out # "ok" THEN t
         ELSE IF ~t.val.value THEN Ok(last, t.st)
         ELSE LET b == evaluate(node.body, env, t.st) IN
              IF b.out = "ok" THEN while_iter(node, env, b.val, b.st)
              ELSE CASE loop_except(b.exc) = "break" -> Ok(last, b.st)
                     [] loop_except(b.exc) = "continue" -> while_iter(node, env, last, b.st)
                     [] OTHER -> b

_evaluate_while(node, env, s) == while_iter(node, env, VNone, s)

\* `for item in iterable:` of _evaluate_for from item i on, last being last_value.
for_iter(node, items, i, last, env, s) ==
    IF i > Len(items) THEN Ok(last, s)
    ELSE LET s1 == insert(env, node.var, items[i], s)
             b == evaluate(node.body, env, s1)
         IN  IF b.out = "ok" THEN for_iter(node, items, i + 1, b.val, env, b.st)
             ELSE CASE loop_except(b.exc) = "break" -> Ok(last, b.st)
                    [] loop_except(b.exc) = "continue" ->
                           for_iter(node, items, i + 1, last, env, b.st)
                    [] OTHER -> b

\* Mutant of _evaluate_for: block scoping, the loop runs in a child frame.
_evaluate_for_scoped(node, env, s) ==
    LET it == evaluate_stmt(node.iterable, env, s) IN
    IF it.out # "ok" THEN it
    ELSE IF it.val.tag \notin {"VList", "VTuple"} THEN Raise("TypeError", "TypeMismatch", it.st)
    ELSE for_iter(node, it.val.value, 1, VNone, Len(it.st.frames) + 1, NewFrame(env, it.st))

_evaluate_for(node, env, s) ==
    LET it == evaluate_stmt(node.iterable, env, s) IN
    IF it.out # "ok" THEN it
    ELSE IF it.val.tag \notin {"VList", "VTuple"} THEN Raise("TypeError", "TypeMismatch", it.st)
    ELSE for_iter(node, it.val.value, 1, VNone, env, it.st)

\* Mutant of eval_FunctionDef: value capture, the closure holds a copy of the frame.
eval_FunctionDef_snapshot(node, env, s) ==
    LET s1 == [s EXCEPT !.frames = Append(@, s.frames[env])] IN
    Ok(VNone, insert(env, node.name, VFunctionClosure(node, Len(s1.frames)), s1))

eval_FunctionDef(node, env, s) ==
    Ok(VNone, insert(env, node.name, VFunctionClosure(node, env), s))

eval_Return(node, env, s) ==
    LET r == evaluate_stmt(node.value, env, s) IN
    IF r.out = "ok" THEN RaiseReturn(r.val, Log(RaiseMark, env, r.st)) ELSE r

\* collection.value[int(idx.value)] once the index is checked to be a Number.
subscript_item(collection, index, s) ==
    LET idx == check_type(index, "VNumber", s) IN
    IF idx.out # "ok" THEN idx
    ELSE IF ~PyInRange(collection.value, PyInt(idx.val.value))
         THEN Raise("IndexError", "IndexOutOfRange", s)
    ELSE LET item == PyItem(collection.value, PyInt(idx.val.value)) IN
         Ok(IF collection.tag = "VString" THEN VString(<<item>>) ELSE item, s)

_evaluate_subscript(node, env, s) ==
    LET c == evaluate_stmt(node.collection, env, s) IN
    IF c.out # "ok" THEN c
    ELSE LET i == evaluate_stmt(node.index, env, c.st) IN
         IF i.out # "ok" THEN i
         ELSE IF c.val.tag \in {"VList", "VTuple", "VString"}
              THEN subscript_item(c.val, i.val, i.st)
              ELSE Raise("TypeError", "TypeMismatch", i.st)

eval_ClassDef(node, env, s) ==
    LET methods == [n \in {node.methods[i].name : i \in 1..Len(node.methods)} |->
                      LET last == CHOOSE i \in 1..Len(node.methods) :
                                    /\ node.methods[i].name = n
                                    /\ \A j \in 1..Len(node.methods) :
                                         node.methods[j].name = n => j <= i
                      IN  VFunctionClosure(node.methods[last], env)]
        s1 == [s EXCEPT !.classes = Append(@, [name |-> node.name, methods |-> methods])]
    IN  Ok(VNone, insert(env, node.name, VClassDef(Len(s1.classes)), s1))

\* Mutant of eval_Attribute: the class methods are searched before the instance
\* attributes.
eval_Attribute_methods_first(node, env, s) ==
    LET o == evaluate_stmt(node.object, env, s) IN
    IF o.out # "ok" THEN o
    ELSE IF o.val.tag # "VObject" THEN Raise("TypeError", "TypeMismatch", o.st)
    ELSE LET obj == o.st.objects[o.val.ref]
             methods == o.st.classes[obj.class_def.ref].methods
         IN  IF node.attr \in DOMAIN methods
             THEN Ok(VMethodClosure(methods[node.attr], o.val), o.st)
             ELSE IF node.attr \in DOMAIN obj.attributes
                  THEN Ok(obj.attributes[node.attr], o.st)
             ELSE Raise("AttributeError", "AttributeNotFound", o.st)

eval_Attribute(node, env, s) ==
    LET o == evaluate_stmt(node.object, env, s) IN
    IF o.out # "ok" THEN o
    ELSE IF o.val.tag # "VObject" THEN Raise("TypeError", "TypeMismatch", o.st)
    ELSE LET obj == o.st.objects[o.val.ref]
             methods == o.st.classes[obj.class_def.ref].methods
         IN  IF node.attr \in DOMAIN obj.attributes THEN Ok(obj.attributes[node.attr], o.st)
             ELSE IF node.attr \in DOMAIN methods
                  THEN Ok(VMethodClosure(methods[node.attr], o.val), o.st)
             ELSE Raise("AttributeError", "AttributeNotFound", o.st)

\* Mutant of eval_AttributeAssignment: the attribute is stored on every instance
\* of the receiver's class.
eval_AttributeAssignment_shared(node, env, s) ==
    LET o == evaluate_stmt(node.object, env, s) IN
    IF o.out # "ok" THEN o
    ELSE IF o.val.tag # "VObject" THEN Raise("TypeError", "TypeMismatch", o.st)
    ELSE LET v == evaluate_stmt(node.value, env, o.st) IN
         IF v.out # "ok" THEN v
         ELSE Ok(v.val, [v.st EXCEPT !.objects =
                    [i \in DOMAIN @ |->
                        IF @[i].class_def = @[o.val.ref].class_def
                        THEN [@[i] EXCEPT !.attributes = MapPut(@, node.attr, v.val)]
                        ELSE @[i]]])

eval_AttributeAssignment(node, env, s) ==
    LET o == evaluate_stmt(node.object, env, s) IN
    IF o.out # "ok" THEN o
    ELSE IF o.val.tag # "VObject" THEN Raise("TypeError", "TypeMismatch", o.st)
    ELSE LET v == evaluate_stmt(node.value, env, o.st) IN
         IF v.out # "ok" THEN v
         ELSE Ok(v.val, [v.st EXCEPT !.objects[o.val.ref].attributes =
                                        MapPut(@, node.attr, v.val)])

\* Structural equality of two values (Python ==): values of different classes differ.
\* Values of different classes differ; lists and tuples are equal element by
\* element; objects, classes and closures are compared field by field (the
\* class and the attributes of an object, the name and the methods of a class,
\* the definition and the captured frame of a function); frames are compared
\* by identity.  A syntax tree equals another when both print the same.
\* Defined on object graphs without cycles.
RECURSIVE ValEq(_, _, _)
ValEq(a, b, s) ==
    IF a.tag # b.tag THEN FALSE
    ELSE CASE a.tag = "VNone" -> TRUE
           [] a.tag \in {"VNumber", "VBool", "VString"} -> a.value = b.value
           [] a.tag \in {"VList", "VTuple"} ->
                  /\ Len(a.value) = Len(b.value)
                  /\ \A i \in 1..Len(a.value) : ValEq(a.value[i], b.value[i], s)
           [] a.tag = "VPrimitive" -> a.name = b.name
           [] a.tag = "VFunctionClosure" ->
                  /\ ToString(a.funcdef) = ToString(b.funcdef)
                  /\ a.closure_env = b.closure_env
           [] a.tag = "VMethodClosure" ->
                  /\ ValEq(a.function, b.function, s)
                  /\ ValEq(a.instance, b.instance, s)
           [] a.tag = "VClassDef" ->
                  \/ a.ref = b.ref
                  \/ LET ca == s.classes[a.ref]
                         cb == s.classes[b.ref]
                     IN  /\ ca.name = cb.name
                         /\ DOMAIN ca.methods = DOMAIN cb.methods
                         /\ \A n \in DOMAIN ca.methods :
                                ValEq(ca.methods[n], cb.methods[n], s)
           [] a.tag = "VObject" ->
                  \/ a.ref = b.ref
                  \/ LET oa == s.objects[a.ref]
                         ob == s.objects[b.ref]
                     IN  /\ ValEq(oa.class_def, ob.class_def, s)
                         /\ DOMAIN oa.attributes = DOMAIN ob.attributes
                         /\ \A n \in DOMAIN oa.attributes :
                                ValEq(oa.attributes[n], ob.attributes[n], s)

\* Python `needle in hay` on two strings: needle is a contiguous part of hay.
IsSubstring(needle, hay) ==
    \E k \in 0..(Len(hay) - Len(needle)) :
        \A j \in 1..Len(needle) : hay[k + j] = needle[j]

_evaluate_in(node, env, s) ==
    LET c == evaluate_stmt(node.container, env, s) IN
    IF c.out # "ok" THEN c
    ELSE LET e == evaluate_stmt(node.element, env, c.st) IN
         IF e.out # "ok" THEN e
         ELSE IF c.val.tag \in {"VList", "VTuple"}
              THEN Ok(VBool(\E k \in 1..Len(c.val.value) : ValEq(c.val.value[k], e.val, e.st)), e.st)
         ELSE IF c.val.tag = "VString"
              THEN Ok(VBool(e.val.tag = "VString" /\ IsSubstring(e.val.value, c.val.value)), e.st)
         ELSE Raise("TypeError", "TypeMismatch", e.st)

\* -------------------------------------------------------------- invocation
\* Mutant of call_env_parent: dynamic scoping, the call frame chained to the caller's.
call_env_parent_dynamic(closure_env, env) == env

\* The parent of a call's new frame: EnvFrame(parent=closure_env).
call_env_parent(closure_env, env) == closure_env

\* Mutant of bind_args: a parameter without an argument is silently left unbound.
RECURSIVE bind_args_lenient(_, _, _, _, _, _)
bind_args_lenient(arg_names, args, i, call_env, kind, s) ==
    IF i > Len(arg_names) \/ i > Len(args) THEN Ok(VNone, s)
    ELSE bind_args_lenient(arg_names, args, i + 1, call_env, kind,
                           insert(call_env, arg_names[i], args[i], s))

\* for i, arg_name in enumerate(arg_names): insert args[i] or raise, from i on
\* (i counts from 1).
bind_args(arg_names, args, i, call_env, kind, s) ==
    IF i > Len(arg_names) THEN Ok(VNone, s)
    ELSE IF i <= Len(args)
         THEN bind_args(arg_names, args, i + 1, call_env, kind,
                        insert(call_env, arg_names[i], args[i], s))
    ELSE Raise("TypeError", kind, s)

\* except ReturnException as ret: return ret.value
call_except(r) == IF r.exc = "ReturnException" THEN Ok(r.val, r.st) ELSE r

_execute_function_call(func_val, args, env, s) ==
    LET funcdef == func_val.funcdef
        s1 == NewFrame(call_env_parent(func_val.closure_env, env), s)
        call_env == LastFrame(s1)
        b == bind_args(funcdef.arg_names, args, 1, call_env, "MissingArgument", s1)
        n == Len(funcdef.arg_names)
    IN  IF b.out # "ok" THEN b
        ELSE IF funcdef.vararg # NoVararg
             THEN LET s2 == insert(call_env, funcdef.vararg,
                                   VList(SubSeq(args, n + 1, Len(args))), b.st)
                      r == evaluate_loop(funcdef.body, 1, VNone, call_env, s2)
                  IN  IF r.out = "ok" THEN r ELSE call_except(r)
        ELSE IF Len(args) > n THEN Raise("TypeError", "TooManyArguments", b.st)
        ELSE LET r == evaluate_loop(funcdef.body, 1, VNone, call_env, b.st) IN
             IF r.out = "ok" THEN r ELSE call_except(r)

_execute_method_call(method_closure, args, env, s) ==
    LET funcdef == method_closure.function.funcdef
        s1 == NewFrame(call_env_parent(method_closure.function.closure_env, env), s)
        call_env == LastFrame(s1)
    IN  IF Len(funcdef.arg_names) = 0 \/ funcdef.arg_names[1] # "self"
        THEN Raise("TypeError", "MalformedMethod", s1)
        ELSE LET s2 == insert(call_env, "self", method_closure.instance, s1)
                 arg_names == Tail(funcdef.arg_names)
                 b == bind_args(arg_names, args, 1, call_env, "MissingArgument", s2)
             IN  IF b.out # "ok" THEN b
                 ELSE IF Len(args) > Len(arg_names)
                      THEN Raise("TypeError", "TooManyArguments", b.st)
                 ELSE LET r == evaluate_loop(funcdef.body, 1, VNone, call_env, b.st) IN
                      IF r.out # "ok" THEN call_except(r)
                      ELSE IF funcdef.name = "__init__" THEN Ok(VNone, r.st)
                      ELSE r

\* Mutant of instantiate: the call yields what the initializer returned.
instantiate_result(func_val, args, env, s) ==
    LET s1 == [s EXCEPT !.objects = Append(@, [class_def |-> func_val,
                                                attributes |-> EmptyMap])]
        instance == VObject(Len(s1.objects))
        methods == s.classes[func_val.ref].methods
    IN  IF "__init__" \in DOMAIN methods
        THEN _execute_method_call(VMethodClosure(methods["__init__"], instance),
                                  args, env, s1)
        ELSE Ok(instance, s1)

\* Calling a class: a new object, initialised by __init__ when the class has one.
instantiate(func_val, args, env, s) ==
    LET s1 == [s EXCEPT !.objects = Append(@, [class_def |-> func_val,
                                                attributes |-> EmptyMap])]
        instance == VObject(Len(s1.objects))
        methods == s.classes[func_val.ref].methods
    IN  IF "__init__" \in DOMAIN methods
        THEN LET r == _execute_method_call(VMethodClosure(methods["__init__"], instance),
                                           args, env, s1)
             IN  IF r.out = "ok" THEN Ok(instance, r.st) ELSE r
        ELSE Ok(instance, s1)

_evaluate_function_call(node, env, s) ==
    LET f == evaluate_stmt(node.function, env, s) IN
    IF f.out # "ok" THEN f
    ELSE LET a == eval_elements(node.args, 1, <<>>, env, f.st) IN
         IF a.out # "ok" THEN a
         ELSE CASE f.val.tag = "VClassDef" -> instantiate(f.val, a.val, env, a.st)
                [] f.val.tag = "VMethodClosure" ->
                       _execute_method_call(f.val, a.val, env, a.st)
                [] f.val.tag = "VPrimitive" -> ApplyPrimitive(f.val.name, a.val, a.st)
                [] f.val.tag = "VFunctionClosure" ->
                       _execute_function_call(f.val, a.val, env, a.st)
                [] OTHER -> Raise("TypeError", "TypeMismatch", a.st)

\* The isinstance chain of evaluate_stmt.
eval_node(node, env, s) ==
    CASE node.type = "PiNumber" -> Ok(VNumber(node.value), s)
      [] node.type = "PiBool" -> Ok(VBool(node.value), s)
      [] node.type = "PiNone" -> Ok(VNone, s)
      [] node.type = "PiString" -> Ok(VString(node.value), s)
      [] node.type = "PiList" -> eval_List(node, env, s)
      [] node.type = "PiTuple" -> eval_Tuple(node, env, s)
      [] node.type = "PiVariable" -> lookup(env, node.name, s)
      [] node.type = "PiBinaryOperation" -> eval_BinaryOperation(node, env, s)
      [] node.type = "PiAssignment" -> eval_Assignment(node, env, s)
      [] node.type = "PiIfThenElse" -> eval_IfThenElse(node, env, s)
      [] node.type = "PiNot" -> eval_Not(node, env, s)
      [] node.type = "PiAnd" -> eval_And(node, env, s)
      [] node.type = "PiOr" -> eval_Or(node, env, s)
      [] node.type = "PiWhile" -> _evaluate_while(node, env, s)
      [] node.type = "PiFunctionDef" -> eval_FunctionDef(node, env, s)
      [] node.type = "PiReturn" -> eval_Return(node, env, s)
      [] node.type = "PiFunctionCall" -> _evaluate_function_call(node, env, s)
      [] node.type = "PiFor" -> _evaluate_for(node, env, s)
      [] node.type = "PiBreak" -> Raise("BreakException", "", s)
      [] node.type = "PiContinue" -> Raise("ContinueException", "", s)
      [] node.type = "PiIn" -> _evaluate_in(node, env, s)
      [] node.type = "PiSubscript" -> _evaluate_subscript(node, env, s)
      [] node.type = "PiClassDef" -> eval_ClassDef(node, env, s)
      [] node.type = "PiAttribute" -> eval_Attribute(node, env, s)
      [] node.type = "PiAttributeAssignment" -> eval_AttributeAssignment(node, env, s)
      [] OTHER -> Raise("TypeError", "UnsupportedNode", s)

\* evaluate_stmt: the dispatch inside its try/except.  An evaluation that
\* exhausts the budget MaxSteps is cut off (a program that does not end).
evaluate_stmt(node, env, s) ==
    IF Len(s.trace) >= MaxSteps THEN Raise("StepLimit", "StepLimit", s)
    ELSE except_clause(eval_node(node, env, Log(node, env, s)))

\* ------------------------------------------------------------- programs
\* The programs evaluated: an input names a family and its parameters a, b, c.
Num(i) == PiNumber(i * Scale)
Var(n) == PiVariable(n)
Call(f, args) == PiFunctionCall(f, args)

\* A callee named by b: 0 a function f, 1 a method m of an object o of class K,
\* 2 the initializer of class K (run by K(...)).  ps are its parameters after self.
CalleeDefs(b, ps, va, body) ==
    CASE b = 0 -> <<PiFunctionDef("f", ps, va, body)>>
      [] b = 1 -> <<PiClassDef("K", <<PiFunctionDef("m", <<"self">> \o ps, va, body)>>),
                    PiAssignment("o", Call(Var("K"), <<>>))>>
      [] b = 2 -> <<PiClassDef("K", <<PiFunctionDef("__init__", <<"self">> \o ps, va, body)>>)>>

CalleeCall(b, args) ==
    CASE b = 0 -> Call(Var("f"), args)
      [] b = 1 -> Call(PiAttribute(Var("o"), "m"), args)
      [] b = 2 -> Call(Var("K"), args)

\* Family "signal": a callee whose body is break (a = 0) or continue (a = 1),
\* called from the body of a while (c = 0) or for (c = 1) loop of the caller,
\* or from no loop at all (c = 2).
SignalProgram(a, b, c) ==
    LET call == CalleeCall(b, <<>>)
        defs == CalleeDefs(b, <<>>, NoVararg, <<IF a = 0 THEN PiBreak ELSE PiContinue>>)
    IN  defs \o
        CASE c = 0 -> <<PiAssignment("go", PiBool(TRUE)),
                        PiWhile(Var("go"), <<PiAssignment("go", PiBool(FALSE)),
                                             call,
                                             PiAssignment("seen", Num(1))>>)>>
          [] c = 1 -> <<PiFor("x", PiList(<<Num(1), Num(2)>>),
                              <<call, PiAssignment("seen", Var("x"))>>)>>
          [] c = 2 -> <<call, PiAssignment("seen", Num(1))>>

\* Family "fault": one statement that fails with the fault numbered a, at the
\* top level (b = 0), in a called function body (b = 1) or in an if branch (b = 2).
FaultStmt(a) ==
    CASE a = 0 -> Var("zz")
      [] a = 1 -> PiIfThenElse(Num(1), <<>>, <<>>)
      [] a = 2 -> Call(Var("g"), <<>>)
      [] a = 3 -> Call(Var("g"), <<Num(1), Num(2)>>)
      [] a = 4 -> Call(PiAttribute(Var("q"), "bad"), <<>>)
      [] a = 5 -> PiAttribute(Var("q"), "missing")
      [] a = 6 -> PiSubscript(PiList(<<Num(1)>>), Num(5))
      [] a = 7 -> PiBreak
      [] a = 8 -> [type |-> "PiUnknown"]

FaultProgram(a, b) ==
    <<PiFunctionDef("g", <<"p">>, NoVararg, <<PiReturn(Var("p"))>>),
      PiClassDef("Q", <<PiFunctionDef("bad", <<>>, NoVararg, <<PiReturn(Num(0))>>)>>),
      PiAssignment("q", Call(Var("Q"), <<>>))>> \o
    CASE b = 0 -> <<FaultStmt(a)>>
      [] b = 1 -> <<PiFunctionDef("h", <<>>, NoVararg, <<FaultStmt(a)>>), Call(Var("h"), <<>>)>>
      [] b = 2 -> <<PiIfThenElse(PiBool(TRUE), <<FaultStmt(a)>>, <<>>)>>

\* Family "init": class K whose __init__ body is `return 5` (a = 0), `self.v = 1`
\* (a = 1) or `return None` (a = 2); o = K(), then with b = 1 r = o.__init__().
InitProgram(a, b) ==
    LET body == CASE a = 0 -> <<PiReturn(Num(5))>>
                  [] a = 1 -> <<PiAttributeAssignment(Var("self"), "v", Num(1))>>
                  [] a = 2 -> <<PiReturn(PiNone)>>
    IN  <<PiClassDef("K", <<PiFunctionDef("__init__", <<"self">>, NoVararg, body)>>),
          PiAssignment("o", Call(Var("K"), <<>>))>> \o
        (IF b = 1 THEN <<PiAssignment("r", Call(PiAttribute(Var("o"), "__init__"), <<>>))>>
         ELSE <<>>)

\* Family "arity": callee b with a fixed parameters (after self) and, with d = 1,
\* the variadic parameter "rest", called with c arguments 11, 12, ...
ParamNames == <<"p1", "p2", "p3", "p4", "p5", "p6">>
ArityArgs(k) == [i \in 1..k |-> Num(10 + i)]
ArityProgram(a, b, c, d) ==
    CalleeDefs(b, SubSeq(ParamNames, 1, a), IF d = 1 THEN "rest" ELSE NoVararg,
               <<PiAssignment("ran", PiBool(TRUE))>>) \o
    <<PiAssignment("r", CalleeCall(b, ArityArgs(c)))>>

\* Family "subscript": r = coll[h] for a List (a = 0), Tuple (a = 1) or String
\* (a = 2) of length b and the index h = (c - MaxIndex)/Scale.
Chars == <<"a", "b", "c", "d", "e", "f">>
MaxIndex == (MaxLen + 1) * Scale
SubscriptElem(a, i) == IF a = 2 THEN Chars[i] ELSE VNumber((100 + i) * Scale)
SubscriptColl(a, n) ==
    CASE a = 0 -> PiList([i \in 1..n |-> Num(100 + i)])
      [] a = 1 -> PiTuple([i \in 1..n |-> Num(100 + i)])
      [] a = 2 -> PiString(SubSeq(Chars, 1, n))
SubscriptProgram(a, b, c) ==
    <<PiAssignment("r", PiSubscript(SubscriptColl(a, b), PiNumber(c - MaxIndex)))>>

\* Family "ret": callee c whose body returns 7 from inside an outer construct
\* (a: 0 while, 1 for, 2 if) and an inner one (b: 0 none, 1 while, 2 for, 3 if),
\* every body followed by statements that must not run; r = the call.
Nest(k, body) ==
    CASE k = 0 -> PiWhile(PiBool(TRUE), body)
      [] k = 1 -> PiFor("i", PiList(<<Num(1), Num(2)>>), body)
      [] k = 2 -> PiIfThenElse(PiBool(TRUE), body, <<>>)
RetProgram(a, b, c) ==
    LET core == <<PiReturn(Num(7)), PiAssignment("after0", Num(1))>>
        inner == IF b = 0 THEN core
                 ELSE <<Nest(b - 1, core), PiAssignment("after1", Num(1))>>
        outer == <<Nest(a, inner), PiAssignment("after2", Num(1)), PiReturn(Num(8))>>
    IN  CalleeDefs(c, <<>>, NoVararg, outer) \o <<PiAssignment("r", CalleeCall(c, <<>>))>>

\* Family "scope": callee reads the name secret, bound only in the frames of its
\* a nested callers c1 .. ca.  b = 0: callee is defined at the root; b = 1: inside
\* maker, whose frame binds own.  c is the call site in c1: 0 a statement, 1 a
\* for body, 2 an argument of another call.
CallerNames == <<"c1", "c2", "c3", "c4", "c5", "c6">>
ScopeProgram(a, b, c) ==
    LET calleeDef ==
            PiFunctionDef("callee", <<>>, NoVararg,
                (IF b = 1 THEN <<PiAssignment("seen_own", Var("own"))>> ELSE <<>>) \o
                <<PiReturn(Var("secret"))>>)
        defs == IF b = 0 THEN <<calleeDef>>
                ELSE <<PiFunctionDef("maker", <<>>, NoVararg,
                           <<PiAssignment("own", Num(3)), calleeDef,
                             PiReturn(Var("callee"))>>),
                       PiAssignment("callee", Call(Var("maker"), <<>>))>>
        ident == PiFunctionDef("ident", <<"v">>, NoVararg, <<PiReturn(Var("v"))>>)
        site == CASE c = 0 -> <<PiReturn(Call(Var("callee"), <<>>))>>
                  [] c = 1 -> <<PiFor("i", PiList(<<Num(1)>>),
                                      <<PiReturn(Call(Var("callee"), <<>>))>>)>>
                  [] c = 2 -> <<PiReturn(Call(Var("ident"), <<Call(Var("callee"), <<>>)>>))>>
        caller(i) == PiFunctionDef(CallerNames[i], <<>>, NoVararg,
                        <<PiAssignment("secret", Num(i))>> \o
                        (IF i = 1 THEN site
                         ELSE <<PiReturn(Call(Var(CallerNames[i - 1]), <<>>))>>))
    IN  defs \o <<ident>> \o [i \in 1..a |-> caller(i)] \o
        <<PiAssignment("r", Call(Var(CallerNames[a]), <<>>))>>

\* Family "capture": y = 1; callee c defined reading y; then b assignments
\* y = 2, y = 3, ...; r = the call.  a = 0: at the root; a = 1: all of it inside
\* the body of a function outer.
CaptureProgram(a, b, c) ==
    LET body == <<PiAssignment("y", Num(1))>> \o
                CalleeDefs(c, <<>>, NoVararg, <<PiReturn(Var("y"))>>) \o
                [j \in 1..b |-> PiAssignment("y", Num(1 + j))]
    IN  IF a = 0 THEN body \o <<PiAssignment("r", CalleeCall(c, <<>>))>>
        ELSE <<PiFunctionDef("outer", <<>>, NoVararg,
                             body \o <<PiReturn(CalleeCall(c, <<>>))>>),
               PiAssignment("r", Call(Var("outer"), <<>>))>>

\* Family "local": x = 1 in the outer frame; callee b binds x in its body by an
\* assignment (a = 0), a def (a = 1), a class statement (a = 2) or a for loop
\* (a = 3) and returns; then r = x read in the outer frame.  c = 0: the outer
\* frame is the root; c = 1: it is the frame of a call of outer.
LocalWrite(a) ==
    CASE a = 0 -> PiAssignment("x", Num(2))
      [] a = 1 -> PiFunctionDef("x", <<>>, NoVararg, <<>>)
      [] a = 2 -> PiClassDef("x", <<>>)
      [] a = 3 -> PiFor("x", PiList(<<Num(5)>>), <<>>)
LocalProgram(a, b, c) ==
    LET body == <<PiAssignment("x", Num(1))>> \o
                CalleeDefs(b, <<>>, NoVararg, <<LocalWrite(a), PiReturn(Var("x"))>>) \o
                <<PiAssignment("t", CalleeCall(b, <<>>))>>
    IN  IF c = 0 THEN body \o <<PiAssignment("r", Var("x"))>>
        ELSE <<PiFunctionDef("outer", <<>>, NoVararg, body \o <<PiReturn(Var("x"))>>),
               PiAssignment("r", Call(Var("outer"), <<>>))>>

\* Family "block": inner is assigned in a then branch (a = 0), an else branch
\* (a = 1), a while body (a = 2) or the body of `for x in` a List (d = 0) or
\* Tuple (d = 1) of 1..c (a = 3); afterwards r = inner, or r = (inner, x) for the
\* for loop.  b = 0: at the top level; b = 1: in the body of a function f.
BlockProgram(a, b, c, d) ==
    LET items == [i \in 1..c |-> Num(i)]
        stmts == CASE a = 0 -> <<PiIfThenElse(PiBool(TRUE),
                                              <<PiAssignment("inner", Num(1))>>, <<>>)>>
                   [] a = 1 -> <<PiIfThenElse(PiBool(FALSE), <<>>,
                                              <<PiAssignment("inner", Num(1))>>)>>
                   [] a = 2 -> <<PiAssignment("go", PiBool(TRUE)),
                                 PiWhile(Var("go"), <<PiAssignment("go", PiBool(FALSE)),
                                                      PiAssignment("inner", Num(1))>>)>>
                   [] a = 3 -> <<PiFor("x", IF d = 0 THEN PiList(items) ELSE PiTuple(items),
                                       <<PiAssignment("inner", Var("x"))>>)>>
        read == IF a = 3 THEN PiTuple(<<Var("inner"), Var("x")>>) ELSE Var("inner")
    IN  IF b = 0 THEN stmts \o <<PiAssignment("r", read)>>
        ELSE <<PiFunctionDef("f", <<>>, NoVararg, stmts \o <<PiReturn(read)>>),
               PiAssignment("r", Call(Var("f"), <<>>))>>

\* Family "inst": class K with no initializer (a = 0), with an initializer that
\* returns 5 (a = 1), that stores its argument 11 + c in self.v (a = 2) or that
\* stores 7 in self.v and returns 9 (a = 3); K is instantiated twice, and with
\* b = 1 the first instance is given the attribute w in between.
InstInit(a) ==
    CASE a = 0 -> <<>>
      [] a = 1 -> <<PiFunctionDef("__init__", <<"self">>, NoVararg, <<PiReturn(Num(5))>>)>>
      [] a = 2 -> <<PiFunctionDef("__init__", <<"self", "p1">>, NoVararg,
                        <<PiAttributeAssignment(Var("self"), "v", Var("p1"))>>)>>
      [] a = 3 -> <<PiFunctionDef("__init__", <<"self">>, NoVararg,
                        <<PiAttributeAssignment(Var("self"), "v", Num(7)),
                          PiReturn(Num(9))>>)>>

InstProgram(a, b, c) ==
    LET args == IF a = 2 THEN <<Num(11 + c)>> ELSE <<>> IN
    <<PiClassDef("K", InstInit(a)),
      PiAssignment("o1", Call(Var("K"), args))>> \o
    (IF b = 1 THEN <<PiAttributeAssignment(Var("o1"), "w", Num(1))>> ELSE <<>>) \o
    <<PiAssignment("o2", Call(Var("K"), args))>>

\* Family "attr": object o of class K, whose methods are m and g (g returns
\* self.<name>); a chooses the attributes stored on o and the name read:
\* 0 o.m = 8, read m; 1 nothing stored, read m; 2 nothing stored, read zz;
\* 3 o.m = 8, read zz; 4 o.v = 8, read v.  The read is o.<name> at the top
\* level (b = 0) or self.<name> in g (b = 1).
AttrName(a) == CASE a \in {0, 1} -> "m" [] a \in {2, 3} -> "zz" [] a = 4 -> "v"

AttrProgram(a, b) ==
    <<PiClassDef("K", <<PiFunctionDef("m", <<"self">>, NoVararg, <<PiReturn(Num(3))>>),
                        PiFunctionDef("g", <<"self">>, NoVararg,
                            <<PiReturn(PiAttribute(Var("self"), AttrName(a)))>>)>>),
      PiAssignment("o", Call(Var("K"), <<>>))>> \o
    (CASE a \in {0, 3} -> <<PiAttributeAssignment(Var("o"), "m", Num(8))>>
       [] a = 4 -> <<PiAttributeAssignment(Var("o"), "v", Num(8))>>
       [] OTHER -> <<>>) \o
    <<PiAssignment("r", IF b = 0 THEN PiAttribute(Var("o"), AttrName(a))
                        ELSE Call(PiAttribute(Var("o"), "g"), <<>>))>>

\* Family "share": class K with methods m and set (set stores self.w = 3),
\* instances o1 and o2, then the three operations numbered a, b, c:
\* 0 o1.v = 1; 1 o1.m = 2; 2 o3 = K(); 3 o1.set(); 4 o2.v = 5.
ShareMethods ==
    <<PiFunctionDef("m", <<"self">>, NoVararg, <<PiReturn(Num(3))>>),
      PiFunctionDef("set", <<"self">>, NoVararg,
          <<PiAttributeAssignment(Var("self"), "w", Num(3))>>)>>

ShareOp(k) ==
    CASE k = 0 -> PiAttributeAssignment(Var("o1"), "v", Num(1))
      [] k = 1 -> PiAttributeAssignment(Var("o1"), "m", Num(2))
      [] k = 2 -> PiAssignment("o3", Call(Var("K"), <<>>))
      [] k = 3 -> Call(PiAttribute(Var("o1"), "set"), <<>>)
      [] k = 4 -> PiAttributeAssignment(Var("o2"), "v", Num(5))

ShareProgram(a, b, c) ==
    <<PiClassDef("K", ShareMethods),
      PiAssignment("o1", Call(Var("K"), <<>>)),
      PiAssignment("o2", Call(Var("K"), <<>>)),
      ShareOp(a), ShareOp(b), ShareOp(c)>>

\* Family "loop".  a = 0 (break) or 1 (continue): an outer loop over x = 1, 2
\* (a while loop for c = 0, a for loop for c = 1) whose body is an inner loop
\* over y = 1, 2, 3 (while for b = 0, for for b = 1) followed by outs = x; the
\* inner body is pre = y, the signal when y == 2, post = y.
\* a = 2: a for loop over the c elements 1..c of a list (b = 0) or tuple (b = 1)
\* whose body is only continue.  a = 3: while True: break.
LoopOver(kind, v, n, body) ==
    IF kind = 1 THEN <<PiFor(v, PiList([i \in 1..n |-> Num(i)]), body)>>
    ELSE <<PiAssignment(v, Num(0)),
           PiWhile(PiBinaryOperation("<", Var(v), Num(n)),
                   <<PiAssignment(v, PiBinaryOperation("+", Var(v), Num(1)))>> \o body)>>

LoopPre == PiAssignment("pre", Var("y"))
LoopPost == PiAssignment("post", Var("y"))
LoopOuts == PiAssignment("outs", Var("x"))
LoopCond == PiBinaryOperation("<", Var("y"), Num(3))

LoopProgram(a, b, c) ==
    CASE a \in {0, 1} ->
             LoopOver(c, "x", 2,
                 LoopOver(b, "y", 3,
                     <<LoopPre,
                       PiIfThenElse(PiBinaryOperation("==", Var("y"), Num(2)),
                                    <<IF a = 0 THEN PiBreak ELSE PiContinue>>, <<>>),
                       LoopPost>>)
                 \o <<LoopOuts>>)
      [] a = 2 -> <<Num(4),
                    PiFor("x", IF b = 0 THEN PiList([i \in 1..c |-> Num(i)])
                               ELSE PiTuple([i \in 1..c |-> Num(i)]),
                          <<PiContinue>>)>>
      [] a = 3 -> <<Num(4), PiWhile(PiBool(TRUE), <<PiBreak, PiAssignment("post", Num(1))>>)>>

\* Family "andor": r = left and right (b = 0) or r = left or right (b = 1),
\* where left is the operand numbered a and right is a method call on o that
\* stores o.w = 9 and returns 7 (c = 0) or the empty list (c = 1), or is the
\* function f (c = 2).
AndOrLeft(a) ==
    CASE a = 0 -> PiBool(FALSE)       [] a = 1 -> PiBool(TRUE)
      [] a = 2 -> Num(0)              [] a = 3 -> Num(3)
      [] a = 4 -> PiString(<<>>)      [] a = 5 -> PiString(<<"a">>)
      [] a = 6 -> PiList(<<>>)        [] a = 7 -> PiList(<<Num(0)>>)
      [] a = 8 -> PiTuple(<<>>)       [] a = 9 -> PiNone
      [] a = 10 -> Var("f")           [] a = 11 -> Var("K")
      [] a = 12 -> Var("o")           [] a = 13 -> PiNumber(1)

AndOrRight(c) ==
    CASE c = 0 -> Call(PiAttribute(Var("o"), "seven"), <<>>)
      [] c = 1 -> Call(PiAttribute(Var("o"), "empty"), <<>>)
      [] c = 2 -> Var("f")

AndOrProgram(a, b, c) ==
    <<PiFunctionDef("f", <<>>, NoVararg, <<PiNone>>),
      PiClassDef("K",
          <<PiFunctionDef("seven", <<"self">>, NoVararg,
                <<PiAttributeAssignment(Var("self"), "w", Num(9)), PiReturn(Num(7))>>),
            PiFunctionDef("empty", <<"self">>, NoVararg,
                <<PiAttributeAssignment(Var("self"), "w", Num(9)), PiReturn(PiList(<<>>))>>)>>),
      PiAssignment("o", Call(Var("K"), <<>>)),
      PiAssignment("r", IF b = 0 THEN PiAnd(AndOrLeft(a), AndOrRight(c))
                        ELSE PiOr(AndOrLeft(a), AndOrRight(c)))>>

\* Family "seq": the sequence of a statements v1 = 21, v2 = 22, ..., whose
\* statement b (when 1 <= b <= a) is replaced by the failing call 0(), as the
\* program itself (c = 0), as the taken branch of an if (c = 1) or as the body
\* of the function f called by r = f() (c = 2).
SeqNames == <<"v1", "v2", "v3", "v4", "v5", "v6">>
SeqFail == Call(Num(0), <<>>)
SeqStmts(a, b) ==
    [i \in 1..a |-> IF i = b THEN SeqFail ELSE PiAssignment(SeqNames[i], Num(20 + i))]

SeqProgram(a, b, c) ==
    CASE c = 0 -> SeqStmts(a, b)
      [] c = 1 -> <<Num(4), PiIfThenElse(PiBool(TRUE), SeqStmts(a, b), <<Num(5)>>)>>
      [] c = 2 -> <<PiFunctionDef("f", <<>>, NoVararg, SeqStmts(a, b)),
                    PiAssignment("r", Call(Var("f"), <<>>))>>

\* Family "binop": r = left + right, written as a binary operation (d = 0) or
\* as the call +(left, right) (d = 1).  a chooses what the operator name is
\* bound to where the operation runs: 0 the primitive, 1 a user function
\* def +(l, r): return (r, l), 2 the number 5, 3 the class K; with a = 4 the
\* operator is %, bound nowhere.  The operation runs at the top level (b = 0,
\* the binding is made in the root frame) or in the body of g, r = g() (b = 1,
\* the binding is a local of g).  The operands are 1 and 2 (c = 0) or the method
\* calls o.left(), which stores o.a = 1 and returns 1, and o.right(), which
\* stores o.b = o.a and returns 2 (c = 1).
BinopLeft(c) == IF c = 0 THEN Num(1) ELSE Call(PiAttribute(Var("o"), "left"), <<>>)
BinopRight(c) == IF c = 0 THEN Num(2) ELSE Call(PiAttribute(Var("o"), "right"), <<>>)

BinopExpr(a, c, d) ==
    LET op == IF a = 4 THEN "%" ELSE "+" IN
    IF d = 0 THEN PiBinaryOperation(op, BinopLeft(c), BinopRight(c))
    ELSE Call(Var(op), <<BinopLeft(c), BinopRight(c)>>)

BinopShadow(a) ==
    CASE a = 1 -> <<PiFunctionDef("+", <<"l", "r">>, NoVararg,
                        <<PiReturn(PiTuple(<<Var("r"), Var("l")>>))>>)>>
      [] a = 2 -> <<PiAssignment("+", Num(5))>>
      [] a = 3 -> <<PiAssignment("+", Var("K"))>>
      [] OTHER -> <<>>

BinopProgram(a, b, c, d) ==
    <<PiClassDef("K",
          <<PiFunctionDef("left", <<"self">>, NoVararg,
                <<PiAttributeAssignment(Var("self"), "a", Num(1)), PiReturn(Num(1))>>),
            PiFunctionDef("right", <<"self">>, NoVararg,
                <<PiAttributeAssignment(Var("self"), "b", PiAttribute(Var("self"), "a")),
                  PiReturn(Num(2))>>)>>),
      PiAssignment("o", Call(Var("K"), <<>>))>> \o
    (IF b = 0 THEN BinopShadow(a) \o <<PiAssignment("r", BinopExpr(a, c, d))>>
     ELSE <<PiFunctionDef("g", <<>>, NoVararg,
                BinopShadow(a) \o <<PiReturn(BinopExpr(a, c, d))>>),
            PiAssignment("r", Call(Var("g"), <<>>))>>)

\* Family "rec": f(more) stores loc = more, evaluates more and f(more[0]), and
\* returns (more, loc); it is called as r = f(m) with m the list [[..[]..]] of
\* nesting depth a - 1: f calls itself with the element of its list until the
\* list is empty, a calls of f in flight at the deepest point, and reads more
\* and loc after the inner call returned.  f is a function (b = 0) or the method m of
\* the object o (b = 1); the inner call is made by f itself (c = 0) or by the
\* function h that f calls, so that f is re-entered through h (c = 1).
RecSelf(b) == IF b = 0 THEN Var("f") ELSE PiAttribute(Var("o"), "m")

RECURSIVE RecList(_)
RecList(k) == IF k = 0 THEN PiList(<<>>) ELSE PiList(<<RecList(k - 1)>>)

RecBody(b, c) ==
    <<PiAssignment("loc", Var("more")),
      PiAnd(Var("more"),
            IF c = 0 THEN Call(RecSelf(b), <<PiSubscript(Var("more"), Num(0))>>)
            ELSE Call(Var("h"), <<Var("more")>>)),
      PiReturn(PiTuple(<<Var("more"), Var("loc")>>))>>

RecProgram(a, b, c) ==
    (IF b = 0 THEN <<PiFunctionDef("f", <<"more">>, NoVararg, RecBody(b, c))>>
     ELSE <<PiClassDef("K", <<PiFunctionDef("m", <<"self", "more">>, NoVararg, RecBody(b, c))>>),
            PiAssignment("o", Call(Var("K"), <<>>))>>) \o
    <<PiFunctionDef("h", <<"k">>, NoVararg,
          <<PiReturn(Call(RecSelf(b), <<PiSubscript(Var("k"), Num(0))>>))>>),
      PiAssignment("r", Call(RecSelf(b), <<RecList(a - 1)>>))>>

\* Calls of f in flight: up to three when f calls itself, an outer and an inner
\* one when it is re-entered through h.
RecDepths(c) == IF c = 0 THEN 1..3 ELSE 1..2

\* Family "norollback": after class K, o = K() and x = 0, the block
\* <write; failing statement; late = 1; o.late = 1>, where the write is
\* y = 1 (a = 0), o.v = 1 (a = 1) or x = 1 (a = 2) and the failing statement is
\* the call 0() (c = 0), a read of the unbound name nope (c = 1) or of the
\* missing attribute o.nope (c = 2).  The block is the rest of the program
\* (b = 0), the body of f, called next (b = 1), the taken branch of an if
\* (b = 2) or the body of a for loop over [1, 2] (b = 3).
NoRollbackWrite(a) ==
    CASE a = 0 -> PiAssignment("y", Num(1))
      [] a = 1 -> PiAttributeAssignment(Var("o"), "v", Num(1))
      [] a = 2 -> PiAssignment("x", Num(1))

NoRollbackFail(c) ==
    CASE c = 0 -> Call(Num(0), <<>>)
      [] c = 1 -> Var("nope")
      [] c = 2 -> PiAttribute(Var("o"), "nope")

NoRollbackLate ==
    <<PiAssignment("late", Num(1)), PiAttributeAssignment(Var("o"), "late", Num(1))>>

NoRollbackProgram(a, b, c) ==
    LET block == <<NoRollbackWrite(a), NoRollbackFail(c)>> \o NoRollbackLate IN
    <<PiClassDef("K", <<>>),
      PiAssignment("o", Call(Var("K"), <<>>)),
      PiAssignment("x", Num(0))>> \o
    CASE b = 0 -> block
      [] b = 1 -> <<PiFunctionDef("f", <<>>, NoVararg, block), Call(Var("f"), <<>>)>>
                  \o NoRollbackLate
      [] b = 2 -> <<PiIfThenElse(PiBool(TRUE), block, <<>>)>> \o NoRollbackLate
      [] b = 3 -> <<PiFor("i", PiList(<<Num(1), Num(2)>>), block)>> \o NoRollbackLate

\* Family "entry": evaluate is given one statement and not a list: the number 1
\* (a = 0), x = 1 (a = 1), the unbound name zz (a = 2), the failing call 0()
\* (a = 3), return 1 (a = 4); or something that is no syntax tree: the number 5
\* (a = 5), a string (a = 6), an object of another class (a = 7).
EntryProgram(a) ==
    CASE a = 0 -> Num(1)
      [] a = 1 -> PiAssignment("x", Num(1))
      [] a = 2 -> Var("zz")
      [] a = 3 -> Call(Num(0), <<>>)
      [] a = 4 -> PiReturn(Num(1))
      [] a = 5 -> 5
      [] a = 6 -> "text"
      [] a = 7 -> [other |-> 5]

\* Family "member": r = element in [item], after class K (one method m),
\* K1 = K, p = K(), the same class statement again, o = K() and, with c = 1,
\* o.v = 1.  The element is numbered a and the item b.
MemberClass == PiClassDef("K", <<PiFunctionDef("m", <<"self">>, NoVararg, <<PiReturn(Num(3))>>)>>)

MemberElement(a) ==
    CASE a = 0 -> PiList(<<Num(1)>>)
      [] a = 1 -> PiList(<<Num(1), PiString(<<"a">>)>>)
      [] a = 2 -> Var("p")
      [] a = 3 -> PiAttribute(Var("p"), "m")
      [] a = 4 -> Var("K1")
      [] a = 5 -> Num(1)
      [] a = 6 -> PiList(<<Var("p")>>)

MemberItem(b) ==
    CASE b = 0 -> PiList(<<PiString(<<"a">>)>>)
      [] b = 1 -> PiList(<<PiBool(TRUE)>>)
      [] b = 2 -> PiList(<<Num(1), Num(2)>>)
      [] b = 3 -> Var("o")
      [] b = 4 -> PiAttribute(Var("o"), "m")
      [] b = 5 -> Var("K")
      [] b = 6 -> PiList(<<Num(1)>>)
      [] b = 7 -> PiTuple(<<Num(1)>>)
      [] b = 8 -> PiList(<<Var("o")>>)
      [] b = 9 -> Var("p")

MemberProgram(a, b, c) ==
    <<MemberClass,
      PiAssignment("K1", Var("K")),
      PiAssignment("p", Call(Var("K"), <<>>)),
      MemberClass,
      PiAssignment("o", Call(Var("K"), <<>>))>> \o
    (IF c = 1 THEN <<PiAttributeAssignment(Var("o"), "v", Num(1))>> ELSE <<>>) \o
    <<PiAssignment("r", PiIn(MemberElement(a), PiList(<<MemberItem(b)>>)))>>

\* Deepest chain of callers of the generated programs.
MaxDepth == 2
\* Most assignments after a definition.
MaxWrites == 2

FamilyInputs(f, A, B, C, D) == [fam : {f}, a : A, b : B, c : C, d : D]

Inputs ==
    FamilyInputs("signal", 0..1, 0..2, 0..2, {0})
    \cup FamilyInputs("fault", 0..8, 0..2, {0}, {0})
    \cup FamilyInputs("init", 0..2, 0..1, {0}, {0})
    \cup FamilyInputs("arity", 0..MaxArgs, 0..2, 0..(MaxArgs + 1), 0..1)
    \cup FamilyInputs("subscript", 0..2, 0..MaxLen, 0..(2 * MaxIndex), {0})
    \cup FamilyInputs("ret", 0..2, 0..3, 0..1, {0})
    \cup FamilyInputs("scope", 1..MaxDepth, 0..1, 0..2, {0})
    \cup FamilyInputs("capture", 0..1, 0..MaxWrites, 0..1, {0})
    \cup FamilyInputs("local", 0..3, 0..1, 0..1, {0})
    \cup FamilyInputs("block", 0..2, 0..1, {0}, {0})
    \cup FamilyInputs("block", {3}, 0..1, 1..MaxLen, 0..1)
    \cup FamilyInputs("inst", {0, 1, 3}, 0..1, {0}, {0})
    \cup FamilyInputs("inst", {2}, 0..1, 0..1, {0})
    \cup FamilyInputs("attr", 0..4, 0..1, {0}, {0})
    \cup FamilyInputs("share", 0..4, 0..4, 0..4, {0})
    \cup FamilyInputs("loop", 0..1, 0..1, 0..1, {0})
    \cup FamilyInputs("loop", {2}, 0..1, 0..MaxLen, {0})
    \cup FamilyInputs("loop", {3}, {0}, {0}, {0})
    \cup FamilyInputs("andor", 0..13, 0..1, 0..2, {0})
    \cup FamilyInputs("seq", 0..MaxLen, 0..MaxLen, 0..2, {0})
    \cup FamilyInputs("binop", 0..4, 0..1, 0..1, 0..1)
    \cup FamilyInputs("rec", RecDepths(0), 0..1, {0}, {0})
    \cup FamilyInputs("rec", RecDepths(1), 0..1, {1}, {0})
    \cup FamilyInputs("norollback", 0..2, 0..3, 0..2, {0})
    \cup FamilyInputs("entry", 0..7, {0}, {0}, {0})
    \cup FamilyInputs("member", 0..6, 0..9, 0..1, {0})

Program(in) ==
    CASE in.fam = "signal" -> SignalProgram(in.a, in.b, in.c)
      [] in.fam = "fault" -> FaultProgram(in.a, in.b)
      [] in.fam = "init" -> InitProgram(in.a, in.b)
      [] in.fam = "arity" -> ArityProgram(in.a, in.b, in.c, in.d)
      [] in.fam = "subscript" -> SubscriptProgram(in.a, in.b, in.c)
      [] in.fam = "ret" -> RetProgram(in.a, in.b, in.c)
      [] in.fam = "scope" -> ScopeProgram(in.a, in.b, in.c)
      [] in.fam = "capture" -> CaptureProgram(in.a, in.b, in.c)
      [] in.fam = "local" -> LocalProgram(in.a, in.b, in.c)
      [] in.fam = "block" -> BlockProgram(in.a, in.b, in.c, in.d)
      [] in.fam = "inst" -> InstProgram(in.a, in.b, in.c)
      [] in.fam = "attr" -> AttrProgram(in.a, in.b)
      [] in.fam = "share" -> ShareProgram(in.a, in.b, in.c)
      [] in.fam = "loop" -> LoopProgram(in.a, in.b, in.c)
      [] in.fam = "andor" -> AndOrProgram(in.a, in.b, in.c)
      [] in.fam = "seq" -> SeqProgram(in.a, in.b, in.c)
      [] in.fam = "binop" -> BinopProgram(in.a, in.b, in.c, in.d)
      [] in.fam = "rec" -> RecProgram(in.a, in.b, in.c)
      [] in.fam = "norollback" -> NoRollbackProgram(in.a, in.b, in.c)
      [] in.fam = "entry" -> EntryProgram(in.a)
      [] in.fam = "member" -> MemberProgram(in.a, in.b, in.c)

\* ---------------------------------------------------------- state machine
VARIABLES
    input,   \* the program under evaluation (family and parameters)
    pc,      \* evaluate: number of statements of the program completed
    st,      \* the store: frames, objects, classes, evaluation trace
    last,    \* evaluate: last_value, or the exception that ended it
    phase    \* "run", "returned" (evaluate returned last_value), "raised"

vars == <<input, pc, st, last, phase>>

Prog == Program(input)

Result(r) == [out |-> r.out, val |-> r.val, exc |-> r.exc, kind |-> r.kind]

\* env = initial_env(); evaluate(program, env) is entered.
Init ==
    /\ input \in Inputs
    /\ pc = 0
    /\ st = initial_env
    /\ last = Result(Ok(VNone, initial_env))
    /\ phase = "run"

\* evaluate: the next statement of the list evaluates to a value.
evaluate_next ==
    /\ phase = "run"
    /\ IsList(Prog)
    /\ pc < Len(Prog)
    /\ LET r == evaluate_stmt(Prog[pc + 1], Root, st) IN
        /\ r.out = "ok"
        /\ pc' = pc + 1
        /\ st' = r.st
        /\ last' = Result(r)
    /\ UNCHANGED <<input, phase>>

\* evaluate: the next statement raises; the exception passes evaluate's except
\* clause and leaves evaluate.
evaluate_raise ==
    /\ phase = "run"
    /\ IsList(Prog)
    /\ pc < Len(Prog)
    /\ LET r == evaluate_stmt(Prog[pc + 1], Root, st) IN
        /\ r.out = "exc"
        /\ st' = r.st
        /\ last' = Result(except_clause(r))
    /\ phase' = "raised"
    /\ UNCHANGED <<input, pc>>

\* evaluate: the list is exhausted, return last_value.
evaluate_return ==
    /\ phase = "run"
    /\ IsList(Prog)
    /\ pc = Len(Prog)
    /\ phase' = "returned"
    /\ UNCHANGED <<input, pc, st, last>>

\* evaluate on a single statement: return evaluate_stmt(node, env), or the
\* exception it raises, passed through evaluate's except clause.
evaluate_single ==
    /\ phase = "run"
    /\ ~IsList(Prog) /\ IsPiStatement(Prog)
    /\ LET r == evaluate_stmt(Prog, Root, st) IN
        /\ st' = r.st
        /\ last' = Result(except_clause(r))
        /\ phase' = IF r.out = "ok" THEN "returned" ELSE "raised"
    /\ UNCHANGED <<input, pc>>

\* evaluate on anything else: the TypeError of the else branch, re-raised as
\* RuntimeError by evaluate's except clause.
evaluate_unsupported ==
    /\ phase = "run"
    /\ ~IsList(Prog) /\ ~IsPiStatement(Prog)
    /\ last' = Result(except_clause(Raise("TypeError", "UnsupportedNode", st)))
    /\ phase' = "raised"
    /\ UNCHANGED <<input, pc, st>>

Next ==
    \/ evaluate_next
    \/ evaluate_raise
    \/ evaluate_return
    \/ evaluate_single
    \/ evaluate_unsupported

Spec == Init /\ [][Next]_vars

\* The root frame's binding of a name once the run is over.
Bound(n) == n \in DOMAIN st.frames[Root].vars
RootVar(n) == st.frames[Root].vars[n]

Holds(n, v) == Bound(n) /\ ValEq(RootVar(n), v, st)
Done == phase # "run"
Frames == 1..Len(st.frames)
FrameHolds(f, n, v) == n \in DOMAIN st.frames[f].vars /\ ValEq(st.frames[f].vars[n], v, st)

\* The fault a failure of evaluate stands for: a break or continue that left
\* every loop is NoEnclosingLoop, any other the fault its message names.
FaultKind(l) ==
    IF l.exc \in {"BreakException", "ContinueException"} THEN "NoEnclosingLoop" ELSE l.kind

ClassifiedKinds ==
    {"UnboundName", "TypeMismatch", "MissingArgument", "TooManyArguments",
     "MalformedMethod", "AttributeNotFound", "IndexOutOfRange", "DivisionByZero",
     "InvalidValue", "NoEnclosingLoop", "UnsupportedNode"}

\* ------------------------------------------------------------------ claims

\* C1 (as claimed): a break or continue executed in a function or method body
\* with no loop of its own makes the call fail with NoEnclosingLoop; the signal
\* does not pass the call boundary, so a caller whose while or for loop
\* surrounds the call ends with that failure and not with its loop ended or
\* advanced.
C1_SignalStopsAtCall ==
    (input.fam = "signal" /\ input.c \in {0, 1} /\ Done) =>
        /\ phase = "raised"
        /\ last.exc \notin {"BreakException", "ContinueException"}
        /\ last.kind = "NoEnclosingLoop"

\* C2 (as claimed): every classified failure leaves evaluate as the one uniform
\* evaluation failure (RuntimeError).
C2_UniformFailure ==
    (phase = "raised" /\ FaultKind(last) \in ClassifiedKinds) => last.exc = "RuntimeError"

\* C3 (as claimed): every call of __init__ through the method-call protocol
\* yields None, also when its body returns a value: after o = K() and
\* r = o.__init__(), o is an Object and r is None.
C3_InitYieldsNone ==
    (input.fam = "init" /\ phase = "returned") =>
        /\ Bound("o") /\ RootVar("o").tag = "VObject"
        /\ input.b = 1 => Holds("r", VNone)

\* C4 (as claimed): a method with n parameters after self called with k
\* arguments fails MissingArgument when k < n, TooManyArguments when k > n and
\* it has no variadic parameter, and otherwise succeeds, with the variadic name
\* bound in the call frame to the List of arguments n+1..k.
C4_MethodArity ==
    (input.fam = "arity" /\ input.b \in {1, 2} /\ Done) =>
        LET n == input.a
            k == input.c
        IN  IF k < n THEN phase = "raised" /\ last.kind = "MissingArgument"
            ELSE IF input.d = 0 /\ k > n
                 THEN phase = "raised" /\ last.kind = "TooManyArguments"
            ELSE /\ phase = "returned"
                 /\ input.d = 1 =>
                      FrameHolds(Len(st.frames), "rest",
                                 VList([i \in 1..(k - n) |-> VNumber((10 + n + i) * Scale)]))

\* C5 (as claimed): coll[h] on a List, Tuple or String of length n, with i the
\* index h truncated toward zero, yields the element at position i when
\* 0 <= i < n and fails IndexOutOfRange for every other i.
C5_SubscriptRange ==
    (input.fam = "subscript" /\ Done) =>
        LET h == input.c - MaxIndex
            i == IF h >= 0 THEN h \div Scale ELSE -((-h) \div Scale)
            e == SubscriptElem(input.a, i + 1)
        IN  IF 0 <= i /\ i < input.b
            THEN phase = "returned" /\ Holds("r", IF input.a = 2 THEN VString(<<e>>) ELSE e)
            ELSE phase = "raised" /\ last.kind = "IndexOutOfRange"

\* C6: once a return statement has raised its ReturnException in the frame of a
\* call, nothing more is evaluated in that frame (no statement, no loop
\* condition, no loop body), whatever if/while/for bodies enclose the return;
\* and the call yields the returned value (7 in the programs of family "ret").
C6_ReturnEndsCall ==
    /\ \A i \in 1..Len(st.trace) :
         (st.trace[i].node.type = RaiseMark.type /\ st.trace[i].env # Root) =>
             \A j \in (i + 1)..Len(st.trace) : st.trace[j].env # st.trace[i].env
    /\ (input.fam = "ret" /\ Done) => (phase = "returned" /\ Holds("r", VNumber(7 * Scale)))

C6_Witness ==
    /\ input.fam = "ret" /\ input.a \in {0, 1} /\ input.b \in {1, 2}
    /\ phase = "returned"
    /\ \E i \in 1..Len(st.trace) : st.trace[i].node.type = RaiseMark.type

\* C7: the frame of a call is chained to the frame captured by the def, never
\* to the caller's: in family "scope" no call frame has a parent that binds
\* secret (only the callers' frames do), the callee reads own through its
\* captured frame, and its read of secret fails UnboundName at every depth and
\* call site.
C7_LexicalScope ==
    (input.fam = "scope" /\ Done) =>
        /\ phase = "raised" /\ last.kind = "UnboundName"
        /\ \A f \in Frames \ {Root} : "secret" \notin DOMAIN st.frames[st.frames[f].parent].vars
        /\ input.b = 1 => \E f \in Frames : FrameHolds(f, "seen_own", VNumber(3 * Scale))

C7_Witness ==
    /\ input.fam = "scope" /\ input.a >= 2 /\ phase = "raised"
    /\ Cardinality({f \in Frames : "secret" \in DOMAIN st.frames[f].vars}) = input.a
    /\ st.trace[Len(st.trace)].node = Var("secret")

\* C8: a closure reads the captured frame itself: a call made after y was
\* assigned again in the defining frame yields the last value assigned (1 + b
\* after b further assignments).
C8_ReferenceCapture ==
    (input.fam = "capture" /\ Done) =>
        (phase = "returned" /\ Holds("r", VNumber((1 + input.b) * Scale)))

C8_Witness ==
    input.fam = "capture" /\ input.b >= 1 /\ phase = "returned" /\ Bound("r")

\* What the callee of family "local" bound to x.
LocalWritten(v, a) ==
    CASE a = 0 -> ValEq(v, VNumber(2 * Scale), st)
      [] a = 1 -> v.tag = "VFunctionClosure"
      [] a = 2 -> v.tag = "VClassDef"
      [] a = 3 -> ValEq(v, VNumber(5 * Scale), st)

\* C9: an assignment, def, class statement or for-loop binding of x executed in
\* a call writes the call's frame only: the callee reads back what it bound (t),
\* every ancestor frame that bound x to 1 still does, and the outer read of x
\* after the call yields 1.
C9_WritesOwnFrame ==
    (input.fam = "local" /\ Done) =>
        /\ phase = "returned" /\ Holds("r", VNumber(Scale))
        /\ \E f \in Frames : /\ "t" \in DOMAIN st.frames[f].vars
                             /\ LocalWritten(st.frames[f].vars["t"], input.a)
                             /\ FrameHolds(f, "x", VNumber(Scale))

C9_Witness ==
    /\ input.fam = "local" /\ phase = "returned"
    /\ \E f \in Frames \ {Root} :
         /\ "x" \in DOMAIN st.frames[f].vars
         /\ LocalWritten(st.frames[f].vars["x"], input.a)
         /\ FrameOf(st.frames[f].parent, "x", st) # NoParent

\* C10: if, while and for bodies run in the frame of the enclosing statement
\* list (no frame is created for them), so inner, assigned in the body, and the
\* for variable x are read after the construct; after `for x in` 1..n the
\* variable x is n, the last element.
C10_NoBlockScope ==
    (input.fam = "block" /\ Done) =>
        /\ phase = "returned"
        /\ Len(st.frames) = 1 + input.b
        /\ Holds("r", IF input.a = 3
                      THEN VTuple(<<VNumber(input.c * Scale), VNumber(input.c * Scale)>>)
                      ELSE VNumber(Scale))

C10_Witness ==
    input.fam = "block" /\ input.a = 3 /\ input.c >= 2 /\ phase = "returned" /\ Bound("r")


\* C11: a function with n fixed parameters called with k arguments fails
\* MissingArgument when k < n and TooManyArguments when k > n without a variadic
\* parameter; otherwise the call frame binds parameter i to argument i for
\* i = 1..n, and the variadic name, when declared, to the List of arguments
\* n+1..k in order (the empty List when k = n).
C11_FunctionArity ==
    (input.fam = "arity" /\ input.b = 0 /\ Done) =>
        LET n == input.a
            k == input.c
            call_env == Len(st.frames)
        IN  IF k < n THEN phase = "raised" /\ last.kind = "MissingArgument"
            ELSE IF input.d = 0 /\ k > n
                 THEN phase = "raised" /\ last.kind = "TooManyArguments"
            ELSE /\ phase = "returned"
                 /\ call_env = Root + 1
                 /\ \A i \in 1..n : FrameHolds(call_env, ParamNames[i], VNumber((10 + i) * Scale))
                 /\ IF input.d = 1
                    THEN FrameHolds(call_env, "rest",
                             VList([i \in 1..(k - n) |-> VNumber((10 + n + i) * Scale)]))
                    ELSE "rest" \notin DOMAIN st.frames[call_env].vars

C11_Witness ==
    /\ input.fam = "arity" /\ input.b = 0 /\ input.d = 1
    /\ input.a >= 1 /\ input.c > input.a /\ phase = "returned"
    /\ Len(st.frames[Len(st.frames)].vars["rest"].value) = input.c - input.a


\* The attributes an instance of family "inst" has when its initializer is done.
InstAttributes ==
    CASE input.a \in {0, 1} -> EmptyMap
      [] input.a = 2 -> MapPut(EmptyMap, "v", VNumber((11 + input.c) * Scale))
      [] input.a = 3 -> MapPut(EmptyMap, "v", VNumber(7 * Scale))

\* C12: calling a class yields a newly allocated Object that references the
\* class, never what the initializer returned: in family "inst" both o1 and o2
\* are Objects of K, they are two distinct Objects, each holds exactly the
\* attributes its initializer stored from the given arguments (none without an
\* initializer, and none carried over from the other instance), and the
\* initializer's return statement ran once per instantiation.
C12_InstantiationYieldsObject ==
    (input.fam = "inst" /\ Done) =>
        /\ phase = "returned"
        /\ Bound("o1") /\ Bound("o2")
        /\ RootVar("o1").tag = "VObject" /\ RootVar("o2").tag = "VObject"
        /\ RootVar("o1").ref # RootVar("o2").ref
        /\ Len(st.objects) = 2
        /\ \A o \in {"o1", "o2"} :
             st.objects[RootVar(o).ref].class_def = RootVar("K")
        /\ RootVar("K").tag = "VClassDef"
        /\ st.objects[RootVar("o1").ref].attributes =
               IF input.b = 1 THEN MapPut(InstAttributes, "w", VNumber(1 * Scale))
               ELSE InstAttributes
        /\ st.objects[RootVar("o2").ref].attributes = InstAttributes
        /\ Cardinality({i \in 1..Len(st.trace) : st.trace[i].node.type = "PiReturn"}) =
               IF input.a \in {1, 3} THEN 2 ELSE 0

C12_Witness ==
    /\ input.fam = "inst" /\ input.a = 3 /\ input.b = 1 /\ phase = "returned"
    /\ RootVar("o2").tag = "VObject"
    /\ \E i \in 1..Len(st.trace) : st.trace[i].node.type = "PiReturn"


\* C13: attribute access looks in the instance attributes before the class
\* methods.  In family "attr" reading m from an object that stores m = 8 yields
\* 8 although its class has a method m; without the stored attribute the same
\* read yields the method bound to the object; an attribute of another name is
\* read back; and a name in neither mapping fails AttributeNotFound, whether or
\* not the object stores other attributes.
C13_InstanceBeforeClass ==
    (input.fam = "attr" /\ Done) =>
        CASE input.a \in {0, 4} -> phase = "returned" /\ Holds("r", VNumber(8 * Scale))
          [] input.a = 1 ->
                 /\ phase = "returned" /\ Bound("r")
                 /\ RootVar("r").tag = "VMethodClosure"
                 /\ RootVar("r").instance = RootVar("o")
                 /\ RootVar("r").function = st.classes[RootVar("K").ref].methods["m"]
          [] input.a \in {2, 3} ->
                 /\ phase = "raised" /\ last.kind = "AttributeNotFound"
                 /\ ~Bound("r")

C13_Witness ==
    /\ input.fam = "attr" /\ input.a = 0 /\ phase = "returned"
    /\ "m" \in DOMAIN st.objects[RootVar("o").ref].attributes
    /\ "m" \in DOMAIN st.classes[RootVar("K").ref].methods
    /\ Holds("r", VNumber(8 * Scale))


\* The operations of family "share" executed so far.
ShareDone == {<<input.a, input.b, input.c>>[i] : i \in 1..(IF pc > 3 THEN pc - 3 ELSE 0)}

\* The attribute mapping an object has when exactly the stores of W, pairs of an
\* operation number and the <<name, value>> it stores, were made on it.
ShareAttributes(W) ==
    [n \in {w[2][1] : w \in W} |-> (CHOOSE w \in W : w[2][1] = n)[2][2]]

\* C14: a class keeps the method mapping its class statement built, and an
\* attribute assignment changes the attribute mapping of its receiver only.
\* After every statement of family "share" the methods of K are the closures of
\* m and set over the defining frame; o1 holds exactly the attributes stored on
\* it so far (directly or by its method set), o2 exactly those stored on o2, and
\* an instance created in between holds none.
C14_ClassImmutableObjectsPrivate ==
    (input.fam = "share" /\ pc >= 3) =>
        /\ phase = "run" \/ phase = "returned"
        /\ Len(st.classes) = 1
        /\ st.classes[RootVar("K").ref].methods =
               [n \in {"m", "set"} |->
                   VFunctionClosure(ShareMethods[IF n = "m" THEN 1 ELSE 2], Root)]
        /\ st.objects[RootVar("o1").ref].attributes =
               ShareAttributes(
                   {w \in {<<0, <<"v", VNumber(1 * Scale)>>>>,
                           <<1, <<"m", VNumber(2 * Scale)>>>>,
                           <<3, <<"w", VNumber(3 * Scale)>>>>} : w[1] \in ShareDone})
        /\ st.objects[RootVar("o2").ref].attributes =
               IF 4 \in ShareDone THEN MapPut(EmptyMap, "v", VNumber(5 * Scale))
               ELSE EmptyMap
        /\ Bound("o3") => st.objects[RootVar("o3").ref].attributes = EmptyMap

C14_Witness ==
    /\ input.fam = "share" /\ phase = "returned"
    /\ ShareDone = {1, 2, 3}
    /\ DOMAIN st.objects[RootVar("o1").ref].attributes = {"m", "w"}
    /\ Bound("o3")


\* How many times the statement node was evaluated.
Evaluations(node) == Cardinality({i \in 1..Len(st.trace) : st.trace[i].node = node})

\* C15: break ends only the innermost loop, at once, and continue only the rest
\* of the current pass of the body.  In family "loop" the inner loop over
\* y = 1, 2, 3 signals at y = 2 in both passes of the outer loop: with break,
\* pre = y runs for y = 1, 2 and post = y for y = 1 in each outer pass, no
\* condition of the inner while is evaluated after the break, and the outer loop
\* still runs outs = x twice; with continue, pre = y runs for every y and
\* post = y for y = 1, 3.  A for loop over k elements whose body is only
\* continue evaluates continue k times, leaves the last element in its variable
\* and yields None, and while True: break ends after one condition evaluation
\* with None.
C15_BreakContinue ==
    (input.fam = "loop" /\ Done) =>
        /\ phase = "returned"
        /\ input.a = 0 =>
              /\ Evaluations(LoopPre) = 4 /\ Evaluations(LoopPost) = 2
              /\ Holds("pre", VNumber(2 * Scale)) /\ Holds("post", VNumber(1 * Scale))
              /\ Holds("y", VNumber(2 * Scale))
              /\ input.b = 0 => Evaluations(LoopCond) = 4
        /\ input.a = 1 =>
              /\ Evaluations(LoopPre) = 6 /\ Evaluations(LoopPost) = 4
              /\ Holds("pre", VNumber(3 * Scale)) /\ Holds("post", VNumber(3 * Scale))
              /\ Holds("y", VNumber(3 * Scale))
              /\ input.b = 0 => Evaluations(LoopCond) = 8
        /\ input.a \in {0, 1} =>
              /\ Evaluations(LoopOuts) = 2
              /\ Holds("outs", VNumber(2 * Scale)) /\ Holds("x", VNumber(2 * Scale))
        /\ input.a = 2 =>
              /\ Evaluations(PiContinue) = input.c
              /\ last.val = VNone
              /\ IF input.c = 0 THEN ~Bound("x") ELSE Holds("x", VNumber(input.c * Scale))
        /\ input.a = 3 =>
              /\ Evaluations(PiBreak) = 1 /\ Evaluations(PiBool(TRUE)) = 1
              /\ last.val = VNone /\ ~Bound("post")

C15_Witness ==
    /\ input.fam = "loop" /\ input.a = 1 /\ input.b = 0 /\ input.c = 1
    /\ phase = "returned"
    /\ Evaluations(PiContinue) = 2 /\ Evaluations(LoopOuts) = 2


\* The value of the left operand numbered a of family "andor" (a < 10 or a = 13),
\* and the operands that are truthy.
AndOrLeftValue(a) ==
    CASE a = 0 -> VBool(FALSE)        [] a = 1 -> VBool(TRUE)
      [] a = 2 -> VNumber(0)          [] a = 3 -> VNumber(3 * Scale)
      [] a = 4 -> VString(<<>>)       [] a = 5 -> VString(<<"a">>)
      [] a = 6 -> VList(<<>>)         [] a = 7 -> VList(<<VNumber(0)>>)
      [] a = 8 -> VTuple(<<>>)        [] a = 9 -> VNone
      [] a = 13 -> VNumber(1)
AndOrTruthy == {1, 3, 5, 7, 13}

\* C16: and / or short-circuit on the truthiness of the left operand and yield
\* the deciding operand's own value.  In family "andor": a left operand that is
\* a function, class or object fails TypeMismatch before the right operand is
\* evaluated; a falsy left operand of and (False, 0, "", [], (), None), or a
\* truthy left operand of or, is the result itself and the right operand is
\* never evaluated (its store o.w does not happen); otherwise the right operand
\* is evaluated once and the result is its value itself (7 or the empty list),
\* or TypeMismatch when it is a function.
C16_ShortCircuit ==
    (input.fam = "andor" /\ Done) =>
        LET right == AndOrRight(input.c)
            \* evaluations of the right operand: the left one is the same node
            \* when both are the variable f
            rights == Evaluations(right) - (IF AndOrLeft(input.a) = right THEN 1 ELSE 0)
            stored == "w" \in DOMAIN st.objects[RootVar("o").ref].attributes
        IN  IF input.a \in 10..12
            THEN /\ phase = "raised" /\ last.kind = "TypeMismatch"
                 /\ rights = 0 /\ ~stored /\ ~Bound("r")
            ELSE IF (input.a \in AndOrTruthy) = (input.b = 1)
            THEN /\ phase = "returned"
                 /\ Holds("r", AndOrLeftValue(input.a))
                 /\ rights = 0 /\ ~stored
            ELSE /\ rights = 1
                 /\ CASE input.c = 0 ->
                             phase = "returned" /\ stored /\ Holds("r", VNumber(7 * Scale))
                      [] input.c = 1 ->
                             phase = "returned" /\ stored /\ Holds("r", VList(<<>>))
                      [] input.c = 2 ->
                             phase = "raised" /\ last.kind = "TypeMismatch" /\ ~Bound("r")

C16_Witness ==
    /\ input.fam = "andor" /\ input.a = 6 /\ input.b = 0 /\ input.c = 0
    /\ phase = "returned"
    /\ Holds("r", VList(<<>>))
    /\ Evaluations(AndOrRight(0)) = 0


\* The evaluated statements of the sequence of family "seq", in evaluation order.
SeqTrace ==
    LET stmts == {SeqStmts(input.a, input.b)[i] : i \in 1..input.a}
        IsStmt(e) == e.node \in stmts
    IN  SelectSeq(st.trace, IsStmt)

\* C17: a statement sequence evaluates its statements in order in one
\* Environment and yields the value of its last statement, None when it is
\* empty; once a statement fails no later statement is evaluated and the
\* sequence yields the failure only.  In family "seq" the evaluated statements
\* are exactly the first m of the sequence, once each and in order, all in one
\* frame (the root for the program and the if branch, the call frame for the
\* function body), where m is the position of the failing statement or the
\* length; that frame binds v_i exactly for i < m (i <= m without failure);
\* without failure the value is that of the last statement (None for the empty
\* sequence), with a failure there is none: evaluate raises and r stays unbound.
C17_SequenceOrder ==
    (input.fam = "seq" /\ Done) =>
        LET n == input.a
            fails == input.b \in 1..n
            m == IF fails THEN input.b ELSE n
            frame == IF input.c = 2 THEN Root + 1 ELSE Root
            value == IF n = 0 THEN VNone ELSE VNumber((20 + n) * Scale)
        IN  /\ Len(SeqTrace) = m
            /\ \A i \in 1..m : /\ SeqTrace[i].node = SeqStmts(n, input.b)[i]
                               /\ SeqTrace[i].env = frame
            /\ \A i \in 1..MaxLen :
                   IF i <= m /\ ~(fails /\ i = m)
                   THEN FrameHolds(frame, SeqNames[i], VNumber((20 + i) * Scale))
                   ELSE \A f \in Frames : SeqNames[i] \notin DOMAIN st.frames[f].vars
            /\ IF fails
               THEN /\ phase = "raised" /\ last.out = "exc"
                    /\ last.kind = "TypeMismatch" /\ ~Bound("r")
               ELSE /\ phase = "returned"
                    /\ IF input.c = 2 THEN Holds("r", value) ELSE ValEq(last.val, value, st)

C17_Witness ==
    /\ input.fam = "seq" /\ input.a = 3 /\ input.b = 2 /\ input.c = 1
    /\ phase = "raised"
    /\ Bound("v1") /\ ~Bound("v3")


\* What a run shows of its result and effects: the outcome, the root bindings of
\* r and o, the objects, and the evaluation steps (node type and frame) other
\* than the binary operation node itself.
BinopSteps(trace) ==
    LET IsStep(e) == e.node.type # "PiBinaryOperation"
        steps == SelectSeq(trace, IsStep)
    IN  [i \in 1..Len(steps) |-> <<steps[i].node.type, steps[i].env>>]

BinopView(l, s) ==
    [last |-> l,
     root |-> [n \in {"r", "o"} \cap DOMAIN s.frames[Root].vars |-> s.frames[Root].vars[n]],
     frames |-> Len(s.frames),
     objects |-> s.objects,
     steps |-> BinopSteps(s.trace)]

\* The first evaluation of a node, 0 when it was never evaluated.
FirstEvaluation(node) ==
    IF Evaluations(node) = 0 THEN 0
    ELSE CHOOSE i \in 1..Len(st.trace) :
             /\ st.trace[i].node = node
             /\ \A j \in 1..(i - 1) : st.trace[j].node # node

\* C18: a binary operation l op r has the result and effects of the call
\* op(l, r).  In family "binop" the run of the operation form ends with the same
\* outcome, bindings of r and o, objects, frames and evaluation steps as the
\* evaluation of the call form of the same program; each operand is evaluated
\* once, the left before the right; and the callee is what the operator name
\* resolves to where the operation runs: the primitive gives 3, a user function
\* bound to + gives its own result (r, l), the class K gives a new Object, the
\* number 5 fails TypeMismatch after both operands were evaluated, and an
\* unbound operator name fails UnboundName before any operand is evaluated.
C18_BinaryOperationIsCall ==
    (input.fam = "binop" /\ input.d = 0 /\ Done) =>
        LET call == evaluate(BinopProgram(input.a, input.b, input.c, 1), Root, initial_env)
            left == BinopLeft(input.c)
            right == BinopRight(input.c)
            attributes == st.objects[RootVar("o").ref].attributes
        IN  /\ BinopView(last, st) = BinopView(Result(call), call.st)
            /\ Evaluations(PiBinaryOperation(IF input.a = 4 THEN "%" ELSE "+", left, right)) = 1
            /\ IF input.a = 4
               THEN /\ phase = "raised" /\ last.kind = "UnboundName"
                    /\ Evaluations(left) = 0 /\ Evaluations(right) = 0
                    /\ attributes = EmptyMap
               ELSE /\ Evaluations(left) = 1 /\ Evaluations(right) = 1
                    /\ FirstEvaluation(left) < FirstEvaluation(right)
                    /\ input.c = 1 =>
                           attributes = MapPut(MapPut(EmptyMap, "a", VNumber(1 * Scale)),
                                               "b", VNumber(1 * Scale))
            /\ CASE input.a = 0 -> phase = "returned" /\ Holds("r", VNumber(3 * Scale))
                 [] input.a = 1 ->
                        /\ phase = "returned"
                        /\ Holds("r", VTuple(<<VNumber(2 * Scale), VNumber(1 * Scale)>>))
                 [] input.a = 2 ->
                        phase = "raised" /\ last.kind = "TypeMismatch" /\ ~Bound("r")
                 [] input.a = 3 ->
                        /\ phase = "returned" /\ Bound("r")
                        /\ RootVar("r").tag = "VObject"
                        /\ RootVar("r").ref # RootVar("o").ref
                        /\ st.objects[RootVar("r").ref].class_def = RootVar("K")
                 [] input.a = 4 -> ~Bound("r")

C18_Witness ==
    /\ input.fam = "binop" /\ input.d = 0 /\ input.a = 1 /\ input.b = 1 /\ input.c = 1
    /\ phase = "returned"
    /\ Evaluations(PiBinaryOperation("+", BinopLeft(1), BinopRight(1))) = 1
    /\ Holds("r", VTuple(<<VNumber(2 * Scale), VNumber(1 * Scale)>>))


\* The list that the call of f at depth i of depth receives in family "rec".
RECURSIVE RecMore(_, _)
RecMore(i, depth) == IF i = depth THEN VList(<<>>) ELSE VList(<<RecMore(i + 1, depth)>>)

\* C19: every call runs in a frame of its own.  In family "rec" the call at
\* depth i binds its parameter more and its local loc to the list of depth
\* a - i in one frame that no other call writes: after the inner calls have
\* returned, the outermost call still reads its own more and loc, so r = f(m)
\* is (m, m), and the frames hold exactly one record of more and loc for each
\* depth i, with one more frame per call of h.
C19_FreshFramePerCall ==
    (input.fam = "rec" /\ Done) =>
        /\ phase = "returned"
        /\ Holds("r", VTuple(<<RecMore(1, input.a), RecMore(1, input.a)>>))
        /\ \A i \in 1..input.a :
               Cardinality({f \in Frames : /\ FrameHolds(f, "more", RecMore(i, input.a))
                                           /\ FrameHolds(f, "loc", RecMore(i, input.a))}) = 1
        /\ Len(st.frames) = Root + input.a + (IF input.c = 1 THEN input.a - 1 ELSE 0)

C19_Witness ==
    /\ input.fam = "rec" /\ input.a >= 2 /\ input.b = 1 /\ input.c = 1
    /\ phase = "returned"
    /\ Len(st.frames) >= Root + 3
    /\ Holds("r", VTuple(<<RecMore(1, input.a), RecMore(1, input.a)>>))


\* C20: a failure rolls nothing back.  In family "norollback" the run ends with
\* the failure of the failing statement, and the write made just before it is
\* still there: y = 1 or x = 1 in the frame the block ran in (the root, or the
\* call frame of f, in which case the root keeps x = 0 and has no y), o.v = 1 on
\* the object; the loop variable the for loop bound before its body failed is
\* still 1; and nothing of the statements after the failing one appears: late
\* is bound in no frame, o has no attribute late, and neither statement was
\* evaluated.
C20_NoRollback ==
    (input.fam = "norollback" /\ Done) =>
        LET frame == IF input.b = 1 THEN Root + 1 ELSE Root
            attributes == st.objects[RootVar("o").ref].attributes
        IN  /\ phase = "raised"
            /\ last.kind = CASE input.c = 0 -> "TypeMismatch"
                             [] input.c = 1 -> "UnboundName"
                             [] input.c = 2 -> "AttributeNotFound"
            /\ Evaluations(NoRollbackWrite(input.a)) = 1
            /\ CASE input.a = 0 ->
                        /\ FrameHolds(frame, "y", VNumber(1 * Scale))
                        /\ Holds("x", VNumber(0)) /\ attributes = EmptyMap
                        /\ input.b = 1 => ~Bound("y")
                 [] input.a = 1 ->
                        /\ attributes = MapPut(EmptyMap, "v", VNumber(1 * Scale))
                        /\ Holds("x", VNumber(0))
                 [] input.a = 2 ->
                        /\ FrameHolds(frame, "x", VNumber(1 * Scale))
                        /\ attributes = EmptyMap
                        /\ input.b = 1 => Holds("x", VNumber(0))
            /\ input.b = 3 => Holds("i", VNumber(1 * Scale))
            /\ \A f \in Frames : "late" \notin DOMAIN st.frames[f].vars
            /\ "late" \notin DOMAIN attributes
            /\ \A i \in 1..2 : Evaluations(NoRollbackLate[i]) = 0

C20_Witness ==
    /\ input.fam = "norollback" /\ input.a = 1 /\ input.b = 1 /\ input.c = 0
    /\ phase = "raised"
    /\ "v" \in DOMAIN st.objects[RootVar("o").ref].attributes
    /\ Len(st.frames) = Root + 1

====
